---------------------------- MODULE Spec2Model ----------------------------
(***************************************************************************)
(* State-machine model of the TDRF threat-correlation core:                *)
(*   - BruteForceDetector  (src/analyzers/patterns.py)                     *)
(*   - CorrelationEngine   (src/correlation/engine.py)                     *)
(*   - RuleEngine          (src/correlation/rules.py)                      *)
(*   - AlertManager        (src/correlation/alert_manager.py)              *)
(*                                                                         *)
(* Python dicts (events, rules, alerts) are TLA+ functions whose DOMAIN is *)
(* the set of keys present; d.get(k, default) is Get(d, k, default).  Time is in   *)
(* whole seconds; each handler reads the clock once.  Strings that are     *)
(* compared with Python's substring operator are sequences of tokens, and  *)
(* `a in b` is "a is a contiguous infix of b".                             *)
(***************************************************************************)
EXTENDS Integers, Sequences, FiniteSets, TLC

VARIABLES
    \* ---- BruteForceDetector ------------------------------------------
    threshold,          \* self.threshold
    time_window,        \* self.time_window
    alert_on_success,   \* self.alert_on_success
    failed_attempts,    \* self.failed_attempts: key -> list of timestamps
    since_clear,        \* history: key -> the failed logins processed since the
                        \* key's last successful_brute_force alert
    \* ---- CorrelationEngine -------------------------------------------
    enabled,            \* self.enabled
    time_windows,       \* self.time_windows.values()
    event_buffer,       \* self.event_buffer
    event_by_source,    \* self.event_by_source
    event_by_target,    \* self.event_by_target
    event_by_type,      \* self.event_by_type
    rules,              \* self.rule_engine.rules
    alerts_enabled,     \* self.alert_manager.enabled
    alerts,             \* self.alert_manager.alerts
    next_id,            \* correlation ids (uuid4) of the alerts returned so far
    now,                \* datetime.now()
    \* ---- the last call: its name, its argument, what it returned ------
    op,
    arg,
    ret,
    exc,                \* the exception the call raised, or None
    pre,                \* failed_attempts as the detector's last call found it
    db_calls            \* the calls of self.db.add_alert the call made: <<[alert, ok]>>

bfVars  == <<threshold, time_window, alert_on_success, failed_attempts, since_clear>>
idxVars == <<event_buffer, event_by_source, event_by_target, event_by_type>>
cfgVars == <<enabled, time_windows, alerts_enabled>>
engVars == <<cfgVars, idxVars, rules, alerts, next_id>>
vars    == <<bfVars, engVars, now, op, arg, ret, exc, pre, db_calls>>

(***************************************************************************)
(* Bounds of the model.                                                    *)
(***************************************************************************)
MaxTs        == 3   \* event timestamps and the clock range over 0..MaxTs
MaxThreshold == 2   \* failed_login_threshold is drawn from 1..MaxThreshold
MaxWindow    == 2   \* time windows are drawn from 1..MaxWindow
MaxTracked   == 3   \* failed attempts tracked by the detector, all keys
MaxBuffer    == 3   \* events held by the engine's buffer
MaxAlerts    == 3   \* alerts the rule engine creates
MaxRules     == 2   \* rules in the rule list

(***************************************************************************)
(* Python values.                                                          *)
(***************************************************************************)
None  == "None"
Empty == [k \in {} |-> None]      \* the empty dict

\* A string that takes part in substring tests, as its sequence of tokens.
Str(token) == <<token>>

\* Python's `a in b` on two such strings: a is a contiguous infix of b.
IsSubstring(a, b) ==
    \E i \in 0..(Len(b) - Len(a)) : SubSeq(b, i + 1, i + Len(a)) = a

Get(d, k, default) == IF k \in DOMAIN d THEN d[k] ELSE default

\* dict union, the right operand winning.
Merge(f, g) ==
    [k \in DOMAIN f \cup DOMAIN g |-> IF k \in DOMAIN g THEN g[k] ELSE f[k]]

\* Python truthiness of an optional string: None and "" are falsy.
Truthy(v) == v # None /\ v # ""

RECURSIVE SelectSeqIdx(_, _, _)
\* [x for x in s if Keep(x)], written out so that it can take a predicate
\* over the element: the indices kept, in order.
SelectSeqIdx(s, keep, i) ==
    IF i > Len(s) THEN <<>>
    ELSE (IF s[i] \in keep THEN <<s[i]>> ELSE <<>>) \o SelectSeqIdx(s, keep, i + 1)

Filter(s, keep) == SelectSeqIdx(s, keep, 1)

Range(s) == {s[i] : i \in 1..Len(s)}

\* Number of positions of s holding x.
Count(s, x) == Cardinality({i \in 1..Len(s) : s[i] = x})

(***************************************************************************)
(* PatternMatcher                                                          *)
(***************************************************************************)
failed_types  == {Str("failed_password"), Str("failed_password_invalid"),
                  Str("authentication_failure"), Str("invalid_user")}
success_types == {Str("accepted_password"), Str("accepted_publickey"),
                  Str("session_opened")}

match_failed_login(event) ==
    \/ ("event_type" \in DOMAIN event /\ event["event_type"] \in failed_types)
    \/ ("event_id" \in DOMAIN event /\ event["event_id"] \in {4625, 4776})

match_successful_login(event) ==
    \/ ("event_type" \in DOMAIN event /\ event["event_type"] \in success_types)
    \/ ("event_id" \in DOMAIN event /\ event["event_id"] = 4624)

(***************************************************************************)
(* BruteForceDetector                                                      *)
(***************************************************************************)
\* NewerThan with the window boundary included.
NewerThan_Inclusive(ts_list, cutoff) ==
    Filter(ts_list, {t \in Range(ts_list) : t >= cutoff})

\* The timestamps of ts_list strictly newer than cutoff, in order.
NewerThan(ts_list, cutoff) == Filter(ts_list, {t \in Range(ts_list) : t > cutoff})

\* defaultdict(list): reading a missing key yields [].
Tracked(fa, key) == IF key \in DOMAIN fa THEN fa[key] ELSE <<>>

\* dict with key set to value (the key is created when missing).
Put(d, key, value) ==
    [k \in DOMAIN d \cup {key} |-> IF k = key THEN value ELSE d[k]]

\* del d[key]
Del(d, key) == [k \in DOMAIN d \ {key} |-> d[k]]

BruteForceAlert(source_ip, username, timestamp, attempt_count, window) ==
    [alert_type  |-> "brute_force_detected",
     severity    |-> "HIGH",
     source_ip   |-> source_ip,
     username    |-> username,
     timestamp   |-> timestamp,
     event_count |-> attempt_count,
     time_window |-> window]

SuccessAlert(source_ip, username, timestamp, n_failures) ==
    [alert_type      |-> "successful_brute_force",
     severity        |-> "CRITICAL",
     source_ip       |-> source_ip,
     username        |-> username,
     timestamp       |-> timestamp,
     failed_attempts |-> n_failures]

\* _handle_failed_login alerting only above the threshold.
HandleFailedLogin_AboveThreshold(fa, source_ip, username, timestamp) ==
    LET key      == <<source_ip, username>>
        kept     == NewerThan(Append(Tracked(fa, key), timestamp),
                              timestamp - time_window)
    IN  [fa  |-> Put(fa, key, kept),
         ret |-> IF Len(kept) > threshold
                 THEN <<BruteForceAlert(source_ip, username, timestamp,
                                        Len(kept), time_window)>>
                 ELSE <<>>]

\* _handle_failed_login: the new tracking dict and the value returned
\* (an Optional alert is a list of no or one alert).
HandleFailedLogin(fa, source_ip, username, timestamp) ==
    LET key      == <<source_ip, username>>
        appended == Append(Tracked(fa, key), timestamp)
        cutoff   == timestamp - time_window
        kept     == NewerThan(appended, cutoff)
        attempt_count == Len(kept)
    IN  [fa  |-> Put(fa, key, kept),
         ret |-> IF attempt_count >= threshold
                 THEN <<BruteForceAlert(source_ip, username, timestamp,
                                        attempt_count, time_window)>>
                 ELSE <<>>]

\* _handle_successful_login that alerts and keeps the key's failures.
HandleSuccessfulLogin_NoClear(fa, source_ip, username, timestamp) ==
    LET recent_failures ==
            NewerThan(Tracked(fa, <<source_ip, username>>), timestamp - time_window)
    IN  [fa  |-> fa,
         ret |-> IF alert_on_success /\ Len(recent_failures) >= 2
                 THEN <<SuccessAlert(source_ip, username, timestamp,
                                     Len(recent_failures))>>
                 ELSE <<>>]

\* _handle_successful_login that alerts whatever alert_on_success is.
HandleSuccessfulLogin_IgnoresFlag(fa, source_ip, username, timestamp) ==
    LET key    == <<source_ip, username>>
        cutoff == timestamp - time_window
        recent_failures == NewerThan(Tracked(fa, key), cutoff)
    IN  IF key \in DOMAIN fa /\ Len(recent_failures) >= 2
        THEN [fa  |-> Del(fa, key),
              ret |-> <<SuccessAlert(source_ip, username, timestamp,
                                     Len(recent_failures))>>]
        ELSE [fa |-> fa, ret |-> <<>>]

\* _handle_successful_login that keeps the key's newest failure on an alert.
HandleSuccessfulLogin_KeepsNewest(fa, source_ip, username, timestamp) ==
    LET key    == <<source_ip, username>>
        cutoff == timestamp - time_window
        recent_failures == NewerThan(Tracked(fa, key), cutoff)
    IN  IF ~alert_on_success THEN [fa |-> fa, ret |-> <<>>]
        ELSE IF key \in DOMAIN fa /\ Len(recent_failures) >= 2
        THEN [fa  |-> Put(fa, key, <<recent_failures[Len(recent_failures)]>>),
              ret |-> <<SuccessAlert(source_ip, username, timestamp,
                                     Len(recent_failures))>>]
        ELSE [fa |-> fa, ret |-> <<>>]

\* _handle_successful_login that stores the recent failures back when it
\* raises no alert.
HandleSuccessfulLogin_PrunesOnSuccess(fa, source_ip, username, timestamp) ==
    LET key    == <<source_ip, username>>
        cutoff == timestamp - time_window
        recent_failures == NewerThan(Tracked(fa, key), cutoff)
    IN  IF ~alert_on_success THEN [fa |-> fa, ret |-> <<>>]
        ELSE IF key \in DOMAIN fa /\ Len(recent_failures) >= 2
        THEN [fa  |-> Del(fa, key),
              ret |-> <<SuccessAlert(source_ip, username, timestamp,
                                     Len(recent_failures))>>]
        ELSE IF key \in DOMAIN fa
        THEN [fa |-> Put(fa, key, recent_failures), ret |-> <<>>]
        ELSE [fa |-> fa, ret |-> <<>>]

\* _handle_successful_login that counts the failures of the trailing window
\* only: newer than the cutoff and no later than the success.
HandleSuccessfulLogin_TrailingWindow(fa, source_ip, username, timestamp) ==
    LET key    == <<source_ip, username>>
        cutoff == timestamp - time_window
        recent_failures ==
            SelectSeq(Tracked(fa, key), LAMBDA t : t > cutoff /\ t <= timestamp)
    IN  IF ~alert_on_success THEN [fa |-> fa, ret |-> <<>>]
        ELSE IF key \in DOMAIN fa /\ Len(recent_failures) >= 2
        THEN [fa  |-> Del(fa, key),
              ret |-> <<SuccessAlert(source_ip, username, timestamp,
                                     Len(recent_failures))>>]
        ELSE [fa |-> fa, ret |-> <<>>]

\* _handle_successful_login
HandleSuccessfulLogin(fa, source_ip, username, timestamp) ==
    LET key    == <<source_ip, username>>
        cutoff == timestamp - time_window
        recent_failures == NewerThan(Tracked(fa, key), cutoff)
    IN  IF ~alert_on_success THEN [fa |-> fa, ret |-> <<>>]
        ELSE IF key \in DOMAIN fa /\ Len(recent_failures) >= 2
        THEN [fa  |-> Del(fa, key),
              ret |-> <<SuccessAlert(source_ip, username, timestamp,
                                     Len(recent_failures))>>]
        ELSE [fa |-> fa, ret |-> <<>>]

\* add_event that tracks a failed login whatever its source_ip is.
DetectorStep_TracksWithoutSource(fa, event) ==
    LET source_ip == Get(event, "source_ip", None)
        username  == Get(event, "username", "unknown")
        timestamp == Get(event, "timestamp", now)
    IN  IF match_failed_login(event)
        THEN HandleFailedLogin(fa, source_ip, username, timestamp)
        ELSE IF ~Truthy(source_ip) THEN [fa |-> fa, ret |-> <<>>]
        ELSE IF match_successful_login(event)
        THEN HandleSuccessfulLogin(fa, source_ip, username, timestamp)
        ELSE [fa |-> fa, ret |-> <<>>]

\* add_event that tracks by the source alone: every event under the key of
\* the source and 'unknown'.
DetectorStep_KeyedBySource(fa, event) ==
    LET source_ip == Get(event, "source_ip", None)
        timestamp == Get(event, "timestamp", now)
    IN  IF ~Truthy(source_ip) THEN [fa |-> fa, ret |-> <<>>]
        ELSE IF match_failed_login(event)
        THEN HandleFailedLogin(fa, source_ip, "unknown", timestamp)
        ELSE IF match_successful_login(event)
        THEN HandleSuccessfulLogin(fa, source_ip, "unknown", timestamp)
        ELSE [fa |-> fa, ret |-> <<>>]

\* BruteForceDetector.add_event, as a function of the tracking dict.
DetectorStep(fa, event) ==
    LET source_ip == Get(event, "source_ip", None)
        username  == Get(event, "username", "unknown")
        timestamp == Get(event, "timestamp", now)
    IN  IF ~Truthy(source_ip) THEN [fa |-> fa, ret |-> <<>>]
        ELSE IF match_failed_login(event)
        THEN HandleFailedLogin(fa, source_ip, username, timestamp)
        ELSE IF match_successful_login(event)
        THEN HandleSuccessfulLogin(fa, source_ip, username, timestamp)
        ELSE [fa |-> fa, ret |-> <<>>]

TotalTracked(fa) ==
    LET RECURSIVE Sum(_)
        Sum(ks) == IF ks = {} THEN 0
                   ELSE LET k == CHOOSE x \in ks : TRUE
                        IN  Len(fa[k]) + Sum(ks \ {k})
    IN  Sum(DOMAIN fa)

(***************************************************************************)
(* CorrelationEngine: the event buffer and its three indexes.  An index    *)
(* state ix is [buffer, by_source, by_target, by_type].                    *)
(***************************************************************************)
\* event.get('event_type', 'unknown'), the key of the type index.
EventTypeKey(event) == Get(event, "event_type", Str("unknown"))

\* e.get('timestamp', datetime.now())
TsOf(event) == Get(event, "timestamp", now)

\* index[key].append(event) on a defaultdict(list).
IndexAppend(index, key, event) ==
    Put(index, key, Append(Tracked(index, key), event))

\* add_event, lines 57-71: append to the buffer and to the indexes.
IndexEvent(ix, event) ==
    LET source_ip == Get(event, "source_ip", None)
        target_ip == Get(event, "target_ip", None)
    IN  [buffer    |-> Append(ix.buffer, event),
         by_type   |-> IndexAppend(ix.by_type, EventTypeKey(event), event),
         by_source |-> IF Truthy(source_ip)
                       THEN IndexAppend(ix.by_source, source_ip, event)
                       ELSE ix.by_source,
         by_target |-> IF Truthy(target_ip)
                       THEN IndexAppend(ix.by_target, target_ip, event)
                       ELSE ix.by_target]

\* max(self.time_windows.values())
MaxOf(S) == CHOOSE m \in S : \A x \in S : x <= m

\* The rebuild loop for event_by_source / event_by_target.
RebuildByIp(buffer, field) ==
    LET keys == {k \in {Get(buffer[i], field, None) : i \in 1..Len(buffer)} :
                    Truthy(k)}
    IN  [k \in keys |->
            Filter(buffer, {e \in Range(buffer) : Get(e, field, None) = k})]

\* The rebuild loop for event_by_type.
RebuildByType(buffer) ==
    LET keys == {EventTypeKey(buffer[i]) : i \in 1..Len(buffer)}
    IN  [k \in keys |->
            Filter(buffer, {e \in Range(buffer) : EventTypeKey(e) = k})]

\* _cleanup_old_events that filters the buffer and leaves the indexes as
\* add_event appended to them.
CleanupOldEvents_NoRebuild(ix) ==
    [buffer    |-> Filter(ix.buffer, {e \in Range(ix.buffer) :
                                        TsOf(e) > now - MaxOf(time_windows)}),
     by_source |-> ix.by_source,
     by_target |-> ix.by_target,
     by_type   |-> ix.by_type]

\* The cleanup with the comparison turned around: it keeps the old events.
KeepRecent_OlderThanCutoff(buffer, cutoff_time) ==
    Filter(buffer, {e \in Range(buffer) : TsOf(e) < cutoff_time})

\* The events of buffer the cleanup keeps.
KeepRecent(buffer, cutoff_time) ==
    Filter(buffer, {e \in Range(buffer) : TsOf(e) > cutoff_time})

\* _cleanup_old_events
CleanupOldEvents(ix) ==
    IF ix.buffer = <<>> THEN ix
    ELSE LET max_window  == MaxOf(time_windows)
             cutoff_time == now - max_window
             kept        == KeepRecent(ix.buffer, cutoff_time)
         IN  [buffer    |-> kept,
              by_source |-> RebuildByIp(kept, "source_ip"),
              by_target |-> RebuildByIp(kept, "target_ip"),
              by_type   |-> RebuildByType(kept)]

\* The window filter with the cutoff itself inside the window.
InWindow_Inclusive(events, q) ==
    Filter(events, {e \in Range(events) :
                        TsOf(e) >= now - Get(q, "time_window", 300)})

\* The filters shared by the three queries.  q holds the call's arguments:
\* the key, time_window when passed (default 300) and event_types when passed.
InWindow(events, q) ==
    LET cutoff == now - Get(q, "time_window", 300)
    IN  Filter(events, {e \in Range(events) : TsOf(e) > cutoff})

\* `if event_types:` then keep the events whose type is in the list.
OfTypes(events, q) ==
    IF "event_types" \in DOMAIN q /\ q.event_types # <<>>
    THEN Filter(events, {e \in Range(events) :
                            /\ "event_type" \in DOMAIN e
                            /\ e.event_type \in Range(q.event_types)})
    ELSE events

GetEventsBySource(ix, q) == OfTypes(InWindow(Tracked(ix.by_source, q.key), q), q)

GetEventsByTarget(ix, q) == OfTypes(InWindow(Tracked(ix.by_target, q.key), q), q)

GetEventsByType(ix, q) == InWindow(Tracked(ix.by_type, q.key), q)

(***************************************************************************)
(* RuleEngine._evaluate_rule.  Each clause either returns (a list of no or *)
(* one alert) or falls through to the next clause.                         *)
(***************************************************************************)
\* rule.get(flag) is truthy.
RuleFlag(rule, flag) == flag \in DOMAIN rule /\ rule[flag] = TRUE

Return(found)  == [returned |-> TRUE, alerts |-> found]
FallThrough    == [returned |-> FALSE, alerts |-> <<>>]

\* Lines 98-101: some required type is a substring of the event's type.
TypeMatches(rule, event) ==
    LET required_events == Get(rule, "events", <<>>)
        current_type    == Get(event, "event_type", <<>>)
    IN  \E i \in 1..Len(required_events) :
            IsSubstring(required_events[i], current_type)

\* The same-source clause content with one of the required types.
SameSourceClause_AnyRequired(rule, event, ix, cid) ==
    LET source_ip       == Get(event, "source_ip", None)
        required_events == Get(rule, "events", <<>>)
        source_events   ==
            GetEventsBySource(ix, [key |-> source_ip,
                                   time_window |-> Get(rule, "time_window", 300)])
        event_types_found ==
            {Get(source_events[i], "event_type", <<>>) : i \in 1..Len(source_events)}
        matches ==
            Cardinality({i \in 1..Len(required_events) :
                \E et \in event_types_found : IsSubstring(required_events[i], et)})
    IN  IF ~RuleFlag(rule, "same_source") THEN FallThrough
        ELSE IF ~Truthy(source_ip) THEN Return(<<>>)
        ELSE IF matches >= 1
        THEN Return(<<[alert_type     |-> "rule_match",
                       rule_name      |-> Get(rule, "name", "Unknown Rule"),
                       severity       |-> Get(rule, "severity", "MEDIUM"),
                       source_ip      |-> source_ip,
                       timestamp      |-> now,
                       correlation_id |-> cid,
                       matched_events |-> Len(source_events)]>>)
        ELSE FallThrough

\* The same-source clause with the match taken in either direction: a
\* required type counts when it is in an observed type or an observed type
\* is in it.
SameSourceClause_EitherWay(rule, event, ix, cid) ==
    LET source_ip       == Get(event, "source_ip", None)
        required_events == Get(rule, "events", <<>>)
        source_events   ==
            GetEventsBySource(ix, [key |-> source_ip,
                                   time_window |-> Get(rule, "time_window", 300)])
        event_types_found ==
            {Get(source_events[i], "event_type", <<>>) : i \in 1..Len(source_events)}
        matches ==
            Cardinality({i \in 1..Len(required_events) :
                \E et \in event_types_found :
                    \/ IsSubstring(required_events[i], et)
                    \/ IsSubstring(et, required_events[i])})
    IN  IF ~RuleFlag(rule, "same_source") THEN FallThrough
        ELSE IF ~Truthy(source_ip) THEN Return(<<>>)
        ELSE IF matches >= Len(required_events)
        THEN Return(<<[alert_type     |-> "rule_match",
                       rule_name      |-> Get(rule, "name", "Unknown Rule"),
                       severity       |-> Get(rule, "severity", "MEDIUM"),
                       source_ip      |-> source_ip,
                       timestamp      |-> now,
                       correlation_id |-> cid,
                       matched_events |-> Len(source_events)]>>)
        ELSE FallThrough

\* The same-source clause that ends the rule when a required type is
\* missing, as it does when the source is.
SameSourceClause_EndsWhenUnmet(rule, event, ix, cid) ==
    LET source_ip       == Get(event, "source_ip", None)
        required_events == Get(rule, "events", <<>>)
        source_events   ==
            GetEventsBySource(ix, [key |-> source_ip,
                                   time_window |-> Get(rule, "time_window", 300)])
        event_types_found ==
            {Get(source_events[i], "event_type", <<>>) : i \in 1..Len(source_events)}
        matches ==
            Cardinality({i \in 1..Len(required_events) :
                \E et \in event_types_found : IsSubstring(required_events[i], et)})
    IN  IF ~RuleFlag(rule, "same_source") THEN FallThrough
        ELSE IF ~Truthy(source_ip) THEN Return(<<>>)
        ELSE IF matches >= Len(required_events)
        THEN Return(<<[alert_type     |-> "rule_match",
                       rule_name      |-> Get(rule, "name", "Unknown Rule"),
                       severity       |-> Get(rule, "severity", "MEDIUM"),
                       source_ip      |-> source_ip,
                       timestamp      |-> now,
                       correlation_id |-> cid,
                       matched_events |-> Len(source_events)]>>)
        ELSE Return(<<>>)

\* Lines 103-134.
SameSourceClause(rule, event, ix, cid) ==
    LET source_ip       == Get(event, "source_ip", None)
        required_events == Get(rule, "events", <<>>)
        source_events   ==
            GetEventsBySource(ix, [key |-> source_ip,
                                   time_window |-> Get(rule, "time_window", 300)])
        event_types_found ==
            {Get(source_events[i], "event_type", <<>>) : i \in 1..Len(source_events)}
        matches ==
            Cardinality({i \in 1..Len(required_events) :
                \E et \in event_types_found : IsSubstring(required_events[i], et)})
    IN  IF ~RuleFlag(rule, "same_source") THEN FallThrough
        ELSE IF ~Truthy(source_ip) THEN Return(<<>>)
        ELSE IF matches >= Len(required_events)
        THEN Return(<<[alert_type     |-> "rule_match",
                       rule_name      |-> Get(rule, "name", "Unknown Rule"),
                       severity       |-> Get(rule, "severity", "MEDIUM"),
                       source_ip      |-> source_ip,
                       timestamp      |-> now,
                       correlation_id |-> cid,
                       matched_events |-> Len(source_events)]>>)
        ELSE FallThrough

\* The same-target clause without the check of the distinct sources.
SameTargetClause_CountOnly(rule, event, ix, cid) ==
    LET target_ip     == Get(event, "target_ip", None)
        target_events ==
            GetEventsByTarget(ix, [key |-> target_ip,
                                   time_window |-> Get(rule, "time_window", 300)])
        min_count      == Get(rule, "count", 1)
        unique_sources ==
            Cardinality({ip \in {Get(target_events[i], "source_ip", None) :
                                    i \in 1..Len(target_events)} : Truthy(ip)})
        min_sources    == Get(rule, "unique_sources_min", 2)
    IN  IF ~RuleFlag(rule, "same_target") THEN FallThrough
        ELSE IF ~Truthy(target_ip) THEN Return(<<>>)
        ELSE IF /\ Len(target_events) >= min_count
                /\ RuleFlag(rule, "different_sources")
        THEN Return(<<[alert_type     |-> "rule_match",
                       rule_name      |-> Get(rule, "name", "Unknown Rule"),
                       severity       |-> Get(rule, "severity", "MEDIUM"),
                       target_ip      |-> target_ip,
                       timestamp      |-> now,
                       correlation_id |-> cid,
                       matched_events |-> Len(target_events),
                       unique_sources |-> unique_sources]>>)
        ELSE FallThrough

\* Lines 136-171.
SameTargetClause(rule, event, ix, cid) ==
    LET target_ip     == Get(event, "target_ip", None)
        target_events ==
            GetEventsByTarget(ix, [key |-> target_ip,
                                   time_window |-> Get(rule, "time_window", 300)])
        min_count      == Get(rule, "count", 1)
        unique_sources ==
            Cardinality({ip \in {Get(target_events[i], "source_ip", None) :
                                    i \in 1..Len(target_events)} : Truthy(ip)})
        min_sources    == Get(rule, "unique_sources_min", 2)
    IN  IF ~RuleFlag(rule, "same_target") THEN FallThrough
        ELSE IF ~Truthy(target_ip) THEN Return(<<>>)
        ELSE IF /\ Len(target_events) >= min_count
                /\ RuleFlag(rule, "different_sources")
                /\ unique_sources >= min_sources
        THEN Return(<<[alert_type     |-> "rule_match",
                       rule_name      |-> Get(rule, "name", "Unknown Rule"),
                       severity       |-> Get(rule, "severity", "MEDIUM"),
                       target_ip      |-> target_ip,
                       timestamp      |-> now,
                       correlation_id |-> cid,
                       matched_events |-> Len(target_events),
                       unique_sources |-> unique_sources]>>)
        ELSE FallThrough

\* str.lower() on the service names the model uses.
Lower(service) ==
    CASE service = "TELNET" -> "telnet"
      [] service = "FTP"    -> "ftp"
      [] service = "SMB"    -> "smb"
      [] OTHER              -> service

\* Lines 173-190.  event.get('service', '') is None for an explicit null,
\* and None.lower() raises AttributeError.
SuspiciousServiceRaises(rule, event) ==
    /\ Get(rule, "suspicious_services", <<>>) # <<>>
    /\ Get(event, "service", "") = None

SuspiciousServiceClause(rule, event, cid) ==
    LET service    == Lower(Get(event, "service", ""))
        suspicious == Get(rule, "suspicious_services", <<>>)
    IN  IF suspicious = <<>> THEN FallThrough
        ELSE IF service \in Range(suspicious)
        THEN Return(<<[alert_type     |-> "suspicious_service",
                       rule_name      |-> Get(rule, "name", "Unknown Rule"),
                       severity       |-> Get(rule, "severity", "MEDIUM"),
                       source_ip      |-> Get(event, "source_ip", None),
                       target_ip      |-> Get(event, "target_ip", None),
                       service        |-> service,
                       timestamp      |-> now,
                       correlation_id |-> cid]>>)
        ELSE FallThrough

\* _evaluate_rule that rejects a rule without a mode it knows (KeyError).
EvaluateRule_UnknownModeRaises(rule, event, ix, cid) ==
    LET by_source == SameSourceClause(rule, event, ix, cid)
        by_target == SameTargetClause(rule, event, ix, cid)
        by_service == SuspiciousServiceClause(rule, event, cid)
    IN  IF ~TypeMatches(rule, event) THEN [alerts |-> <<>>, raised |-> FALSE]
        ELSE IF /\ ~RuleFlag(rule, "same_source")
                /\ ~RuleFlag(rule, "same_target")
                /\ Get(rule, "suspicious_services", <<>>) = <<>>
             THEN [alerts |-> <<>>, raised |-> TRUE]
        ELSE IF by_source.returned THEN [alerts |-> by_source.alerts, raised |-> FALSE]
        ELSE IF by_target.returned THEN [alerts |-> by_target.alerts, raised |-> FALSE]
        ELSE IF SuspiciousServiceRaises(rule, event) THEN [alerts |-> <<>>, raised |-> TRUE]
        ELSE [alerts |-> by_service.alerts, raised |-> FALSE]

\* _evaluate_rule without the check of the event's type (lines 98-101).
EvaluateRule_NoTypeGate(rule, event, ix, cid) ==
    LET by_source == SameSourceClause(rule, event, ix, cid)
        by_target == SameTargetClause(rule, event, ix, cid)
        by_service == SuspiciousServiceClause(rule, event, cid)
    IN  IF by_source.returned THEN [alerts |-> by_source.alerts, raised |-> FALSE]
        ELSE IF by_target.returned THEN [alerts |-> by_target.alerts, raised |-> FALSE]
        ELSE IF SuspiciousServiceRaises(rule, event) THEN [alerts |-> <<>>, raised |-> TRUE]
        ELSE [alerts |-> by_service.alerts, raised |-> FALSE]

\* _evaluate_rule: [alerts |-> no or one alert, raised |-> an exception left it].
EvaluateRule(rule, event, ix, cid) ==
    LET by_source == SameSourceClause(rule, event, ix, cid)
        by_target == SameTargetClause(rule, event, ix, cid)
        by_service == SuspiciousServiceClause(rule, event, cid)
    IN  IF ~TypeMatches(rule, event) THEN [alerts |-> <<>>, raised |-> FALSE]
        ELSE IF by_source.returned THEN [alerts |-> by_source.alerts, raised |-> FALSE]
        ELSE IF by_target.returned THEN [alerts |-> by_target.alerts, raised |-> FALSE]
        ELSE IF SuspiciousServiceRaises(rule, event) THEN [alerts |-> <<>>, raised |-> TRUE]
        ELSE [alerts |-> by_service.alerts, raised |-> FALSE]

RECURSIVE EvaluateFrom_Deduplicated(_, _, _, _, _, _)
\* The loop of evaluate_event that drops the alert of a rule the alert
\* manager already holds an alert of.
EvaluateFrom_Deduplicated(rule_list, i, event, ix, found, drawn) ==
    IF i > Len(rule_list) THEN [alerts |-> found, raised |-> FALSE]
    ELSE LET r == EvaluateRule(rule_list[i], event, ix, drawn + Len(found) + 1)
             fresh == SelectSeq(r.alerts,
                                LAMBDA a : \A k \in 1..Len(alerts) :
                                               alerts[k].rule_name # a.rule_name)
         IN  IF r.raised THEN [alerts |-> found, raised |-> TRUE]
             ELSE EvaluateFrom_Deduplicated(rule_list, i + 1, event, ix,
                                            found \o fresh, drawn)

RECURSIVE EvaluateFrom(_, _, _, _, _, _)
\* The loop of evaluate_event from rule i on, found being the alerts so far;
\* every alert draws a fresh correlation id, drawn being the ids in use.
EvaluateFrom(rule_list, i, event, ix, found, drawn) ==
    IF i > Len(rule_list) THEN [alerts |-> found, raised |-> FALSE]
    ELSE LET r == EvaluateRule(rule_list[i], event, ix, drawn + Len(found) + 1)
         IN  IF r.raised THEN [alerts |-> found, raised |-> TRUE]
             ELSE EvaluateFrom(rule_list, i + 1, event, ix, found \o r.alerts, drawn)

\* RuleEngine.evaluate_event
EvaluateEvent(event, ix, drawn) == EvaluateFrom(rules, 1, event, ix, <<>>, drawn)

(***************************************************************************)
(* AlertManager.add_alert: the setdefault calls change the alert dict in   *)
(* place, so the caller's list holds the alert as stored.                  *)
(***************************************************************************)
StoredAlert(alert) ==
    Merge([timestamp |-> now, severity |-> "MEDIUM",
           acknowledged |-> FALSE, resolved |-> FALSE], alert)

RECURSIVE MapStored(_)
\* The alerts of a list after add_alert has run on each.
MapStored(found) ==
    IF found = <<>> THEN <<>>
    ELSE <<StoredAlert(Head(found))>> \o MapStored(Tail(found))

(***************************************************************************)
(* Inputs of the detector.                                                 *)
(***************************************************************************)
Timestamps == 0..MaxTs

BFSources == {"10.0.0.5"}
BFUsers   == {"admin"}

\* What makes an event a failed login, a successful login or neither.
BFKinds == {[event_type |-> Str("failed_password")],
            [event_type |-> Str("accepted_password")],
            [event_type |-> Str("port_scan")]}

BFEvents ==
    {Merge(Merge(Merge(k, s), u), [timestamp |-> t]) :
        k \in BFKinds,
        s \in {[source_ip |-> ip] : ip \in BFSources},
        u \in {Empty} \cup {[username |-> n] : n \in BFUsers},
        t \in Timestamps}

(***************************************************************************)
(* Initial state: the objects as constructed.                              *)
(***************************************************************************)
InitDetector ==
    /\ threshold \in 1..MaxThreshold
    /\ time_window \in 1..MaxWindow
    /\ alert_on_success = TRUE
    /\ failed_attempts = Empty
    /\ since_clear = Empty

InitCall ==
    /\ op = "init" /\ arg = Empty /\ ret = <<>> /\ exc = None
    /\ pre = Empty /\ db_calls = <<>>


\* The store with a failure that ends the forwarding: no call after the
\* first that raised.
DbCalls_StopAtFailure(found, failing) ==
    LET last == IF failing \cap (1..Len(found)) = {} THEN Len(found)
                ELSE CHOOSE k \in failing \cap (1..Len(found)) :
                         \A m \in failing \cap (1..Len(found)) : k <= m
    IN  [k \in 1..last |-> [alert |-> found[k], ok |-> k \notin failing]]

\* self.db.add_alert is called for each alert; the calls at the positions of
\* failing raise, which the caller catches (AlertManager.add_alert, lines
\* 62-74, and the detector's handlers) before it goes on.
DbCalls(found, failing) ==
    [k \in 1..Len(found) |-> [alert |-> found[k], ok |-> k \notin failing]]

\* The history of the keys that had a successful_brute_force alert: the
\* alert starts the key's count at 0, each failed login processed for the
\* key adds one (counted up to the threshold).
SinceClear(since, event, returned) ==
    LET key == <<Get(event, "source_ip", None), Get(event, "username", "unknown")>>
    IN  IF returned # <<>> /\ returned[1].alert_type = "successful_brute_force"
        THEN Put(since, key, 0)
        ELSE IF /\ key \in DOMAIN since
                /\ Truthy(Get(event, "source_ip", None))
                /\ match_failed_login(event)
        THEN Put(since, key, IF since[key] < threshold THEN since[key] + 1
                             ELSE threshold)
        ELSE since

(***************************************************************************)
(* BruteForceDetector.add_event(event)                                     *)
(***************************************************************************)
BFAddEvent(event, db_ok) ==
    LET r == DetectorStep(failed_attempts, event)
    IN  /\ TotalTracked(r.fa) <= MaxTracked
        /\ since_clear' = SinceClear(since_clear, event, r.ret)
        /\ r.ret = <<>> => db_ok
        /\ db_calls' = DbCalls(r.ret, IF db_ok THEN {} ELSE {1})
        /\ failed_attempts' = r.fa
        /\ op' = "bf.add_event"
        /\ arg' = event
        /\ ret' = r.ret
        /\ exc' = None
        /\ pre' = failed_attempts
        /\ UNCHANGED <<threshold, time_window, alert_on_success, engVars, now>>

RECURSIVE AnalyzeFrom_NewestFirst(_, _, _, _, _)
\* The loop of analyze_events with each alert put before the ones found so
\* far.
AnalyzeFrom_NewestFirst(fa, since, events, i, found) ==
    IF i > Len(events) THEN [fa |-> fa, since |-> since, ret |-> found]
    ELSE CHOOSE out \in
             { AnalyzeFrom_NewestFirst(r.fa, SinceClear(since, events[i], r.ret),
                                       events, i + 1, r.ret \o found)
               : r \in {DetectorStep(fa, events[i])} }
             : TRUE

RECURSIVE AnalyzeFrom(_, _, _, _, _)
\* The loop of analyze_events from event i on: found is the list of alerts
\* so far, fa the tracking dict as the events before i left it.
AnalyzeFrom(fa, since, events, i, found) ==
    IF i > Len(events) THEN [fa |-> fa, since |-> since, ret |-> found]
    ELSE CHOOSE out \in
             { AnalyzeFrom(r.fa, SinceClear(since, events[i], r.ret),
                           events, i + 1, found \o r.ret)
               : r \in {DetectorStep(fa, events[i])} }
             : TRUE

\* BruteForceDetector.analyze_events(events)
BFAnalyzeEvents(events) ==
    \E r \in {AnalyzeFrom(failed_attempts, since_clear, events, 1, <<>>)} :
        /\ TotalTracked(r.fa) <= MaxTracked
        /\ since_clear' = r.since
        /\ db_calls' = DbCalls(r.ret, {})
        /\ failed_attempts' = r.fa
        /\ op' = "bf.analyze_events"
        /\ arg' = events
        /\ ret' = r.ret
        /\ exc' = None
        /\ pre' = failed_attempts
        /\ UNCHANGED <<threshold, time_window, alert_on_success, engVars, now>>

(***************************************************************************)
(* CorrelationEngine: the operations.                                      *)
(***************************************************************************)
Ix == [buffer    |-> event_buffer,
       by_source |-> event_by_source,
       by_target |-> event_by_target,
       by_type   |-> event_by_type]

SetIx(ix) ==
    /\ event_buffer' = ix.buffer
    /\ event_by_source' = ix.by_source
    /\ event_by_target' = ix.by_target
    /\ event_by_type' = ix.by_type

\* The engine's own state, as add_event reads and writes it.
EngineState == [ix |-> Ix, alerts |-> alerts, next_id |-> next_id]

\* The forwarding with the newest alert put first.
Forward_NewestFirst(held, found) == found \o held

\* add_event, lines 80-81, on an enabled AlertManager: self.alerts.append
\* for each alert, in the order of the list.
Forward(held, found) == held \o found

\* add_event that returns the alerts the store accepted and leaves out the
\* ones it raised on.
AddEventStep_ReturnsStored(st, event, failing) ==
    LET indexed == IndexEvent(st.ix, event)
        cleaned == CleanupOldEvents(indexed)
        found   == EvaluateEvent(event, cleaned, st.next_id)
        stored  == IF alerts_enabled THEN MapStored(found.alerts) ELSE found.alerts
        kept    == {k \in 1..Len(stored) : k \notin failing}
    IN  IF ~enabled
        THEN [ix |-> st.ix, alerts |-> st.alerts, next_id |-> st.next_id,
              ret |-> <<>>, db_calls |-> <<>>, raised |-> FALSE]
        ELSE IF found.raised
        THEN [ix |-> cleaned, alerts |-> st.alerts, next_id |-> st.next_id,
              ret |-> <<>>, db_calls |-> <<>>, raised |-> TRUE]
        ELSE [ix |-> cleaned,
              alerts |-> IF alerts_enabled THEN Forward(st.alerts, stored)
                         ELSE st.alerts,
              next_id |-> st.next_id + Len(stored),
              ret |-> IF alerts_enabled
                      THEN SelectSeq(stored, LAMBDA a :
                               \E k \in kept : stored[k] = a)
                      ELSE stored,
              db_calls |-> IF alerts_enabled THEN DbCalls(stored, failing)
                            ELSE <<>>,
              raised |-> FALSE]

\* add_event that runs the rules on the index as it found it, and indexes
\* the event and evicts afterwards.
AddEventStep_EvaluatesFirst(st, event, failing) ==
    LET indexed == IndexEvent(st.ix, event)
        cleaned == CleanupOldEvents(indexed)
        found   == EvaluateEvent(event, st.ix, st.next_id)
        stored  == IF alerts_enabled THEN MapStored(found.alerts) ELSE found.alerts
    IN  IF ~enabled
        THEN [ix |-> st.ix, alerts |-> st.alerts, next_id |-> st.next_id,
              ret |-> <<>>, db_calls |-> <<>>, raised |-> FALSE]
        ELSE IF found.raised
        THEN [ix |-> cleaned, alerts |-> st.alerts, next_id |-> st.next_id,
              ret |-> <<>>, db_calls |-> <<>>, raised |-> TRUE]
        ELSE [ix |-> cleaned,
              alerts |-> IF alerts_enabled THEN Forward(st.alerts, stored)
                         ELSE st.alerts,
              next_id |-> st.next_id + Len(stored),
              ret |-> stored,
              db_calls |-> IF alerts_enabled THEN DbCalls(stored, failing)
                            ELSE <<>>,
              raised |-> FALSE]

\* add_event that does not read self.enabled.
AddEventStep_IgnoresEnabled(st, event, failing) ==
    LET indexed == IndexEvent(st.ix, event)
        cleaned == CleanupOldEvents(indexed)
        found   == EvaluateEvent(event, cleaned, st.next_id)
        stored  == IF alerts_enabled THEN MapStored(found.alerts) ELSE found.alerts
    IN  IF found.raised
        THEN [ix |-> cleaned, alerts |-> st.alerts, next_id |-> st.next_id,
              ret |-> <<>>, db_calls |-> <<>>, raised |-> TRUE]
        ELSE [ix |-> cleaned,
              alerts |-> IF alerts_enabled THEN Forward(st.alerts, stored)
                         ELSE st.alerts,
              next_id |-> st.next_id + Len(stored),
              ret |-> stored,
              db_calls |-> IF alerts_enabled THEN DbCalls(stored, failing)
                            ELSE <<>>,
              raised |-> FALSE]

\* CorrelationEngine.add_event(event) on the engine state st: the state it
\* leaves, what it returns, its calls of the store, whether it raised.
AddEventStep(st, event, failing) ==
    LET indexed == IndexEvent(st.ix, event)
        cleaned == CleanupOldEvents(indexed)
        found   == EvaluateEvent(event, cleaned, st.next_id)
        stored  == IF alerts_enabled THEN MapStored(found.alerts) ELSE found.alerts
    IN  IF ~enabled
        THEN [ix |-> st.ix, alerts |-> st.alerts, next_id |-> st.next_id,
              ret |-> <<>>, db_calls |-> <<>>, raised |-> FALSE]
        ELSE IF found.raised
        THEN [ix |-> cleaned, alerts |-> st.alerts, next_id |-> st.next_id,
              ret |-> <<>>, db_calls |-> <<>>, raised |-> TRUE]
        ELSE [ix |-> cleaned,
              alerts |-> IF alerts_enabled THEN Forward(st.alerts, stored)
                         ELSE st.alerts,
              next_id |-> st.next_id + Len(stored),
              ret |-> stored,
              db_calls |-> IF alerts_enabled THEN DbCalls(stored, failing)
                            ELSE <<>>,
              raised |-> FALSE]

\* The state and the result of a call into the engine become the next state.
Becomes(r) ==
    /\ Len(r.ix.buffer) <= MaxBuffer
    /\ r.next_id <= MaxAlerts
    /\ SetIx(r.ix)
    /\ alerts' = r.alerts
    /\ next_id' = r.next_id
    /\ ret' = r.ret
    /\ db_calls' = r.db_calls
    /\ exc' = IF r.raised THEN "AttributeError" ELSE None

\* add_event that takes the rules that fired off the rule list.
AddEvent_ConsumesRules(event, failing) ==
    LET r == AddEventStep(EngineState, event, failing)
    IN  /\ op' = "add_event"
        /\ arg' = event
        /\ failing \subseteq 1..Len(r.ret)
        /\ failing # {} => alerts_enabled
        /\ Becomes(r)
        /\ rules' = SelectSeq(rules, LAMBDA rule :
                        \A k \in 1..Len(r.ret) : r.ret[k].rule_name # rule.name)
        /\ UNCHANGED <<bfVars, pre, cfgVars, now>>

\* CorrelationEngine.add_event(event); the store fails on the alerts at the
\* positions of failing.
AddEvent(event, failing) ==
    LET r == AddEventStep(EngineState, event, failing)
    IN  /\ op' = "add_event"
        /\ arg' = event
        /\ failing \subseteq 1..Len(r.ret)
        /\ failing # {} => alerts_enabled
        /\ Becomes(r)
        /\ UNCHANGED <<bfVars, pre, cfgVars, rules, now>>

RECURSIVE AddEventsFrom_LastOnly(_, _, _, _, _, _)
\* The loop of add_events with the list assigned, not extended: it returns
\* the alerts of the last event.
AddEventsFrom_LastOnly(st, events, i, all_alerts, stored, failing) ==
    IF i > Len(events)
    THEN [ix |-> st.ix, alerts |-> st.alerts, next_id |-> st.next_id,
          ret |-> all_alerts, db_calls |-> stored, raised |-> FALSE]
    ELSE LET r == AddEventStep(st, events[i],
                               {k - Len(all_alerts) : k \in failing})
         IN  IF r.raised
             THEN [ix |-> r.ix, alerts |-> r.alerts, next_id |-> r.next_id,
                   ret |-> <<>>, db_calls |-> stored, raised |-> TRUE]
             ELSE AddEventsFrom_LastOnly(r, events, i + 1, r.ret,
                                         stored \o r.db_calls, failing)

RECURSIVE AddEventsFrom(_, _, _, _, _, _)
\* The loop of add_events from event i on: all_alerts is the list it has
\* extended so far, stored the calls of the store so far.
AddEventsFrom(st, events, i, all_alerts, stored, failing) ==
    IF i > Len(events)
    THEN [ix |-> st.ix, alerts |-> st.alerts, next_id |-> st.next_id,
          ret |-> all_alerts, db_calls |-> stored, raised |-> FALSE]
    ELSE CHOOSE out \in
             { IF r.raised
               THEN [ix |-> r.ix, alerts |-> r.alerts, next_id |-> r.next_id,
                     ret |-> <<>>, db_calls |-> stored, raised |-> TRUE]
               ELSE AddEventsFrom(r, events, i + 1, all_alerts \o r.ret,
                                  stored \o r.db_calls, failing)
               : r \in {AddEventStep(st, events[i],
                                     {k - Len(all_alerts) : k \in failing})} }
             : TRUE

\* CorrelationEngine.add_events(events)
AddEvents(events, failing) ==
    \E r \in {AddEventsFrom(EngineState, events, 1, <<>>, <<>>, failing)} :
        /\ op' = "add_events"
        /\ arg' = events
        /\ failing \subseteq 1..Len(r.ret)
        /\ failing # {} => alerts_enabled
        /\ Becomes(r)
        /\ UNCHANGED <<bfVars, pre, cfgVars, rules, now>>

\* get_statistics that counts the buffered events that have a source.
GetStatistics_SourcesOfEvents ==
    /\ op' = "get_statistics"
    /\ arg' = Empty
    /\ ret' = <<[events_buffered |-> Len(event_buffer),
                 unique_sources  |-> Len(SelectSeq(event_buffer,
                                         LAMBDA e : Truthy(Get(e, "source_ip", None)))),
                 unique_targets  |-> Cardinality(DOMAIN event_by_target),
                 event_types     |-> Cardinality(DOMAIN event_by_type),
                 active_correlations |-> 0,
                 total_alerts    |-> Len(alerts)]>>
    /\ exc' = None
    /\ db_calls' = <<>>
    /\ UNCHANGED <<bfVars, pre, engVars, now>>

\* CorrelationEngine.get_statistics()
GetStatistics ==
    /\ op' = "get_statistics"
    /\ arg' = Empty
    /\ ret' = <<[events_buffered |-> Len(event_buffer),
                 unique_sources  |-> Cardinality(DOMAIN event_by_source),
                 unique_targets  |-> Cardinality(DOMAIN event_by_target),
                 event_types     |-> Cardinality(DOMAIN event_by_type),
                 active_correlations |-> 0,
                 total_alerts    |-> Len(alerts)]>>
    /\ exc' = None
    /\ db_calls' = <<>>
    /\ UNCHANGED <<bfVars, pre, engVars, now>>

\* clear_buffer that clears the buffer and leaves the indexes.
ClearBuffer_KeepsIndexes ==
    /\ op' = "clear_buffer"
    /\ arg' = Empty
    /\ ret' = <<>>
    /\ exc' = None
    /\ db_calls' = <<>>
    /\ event_buffer' = <<>>
    /\ UNCHANGED <<event_by_source, event_by_target, event_by_type>>
    /\ UNCHANGED <<bfVars, pre, cfgVars, rules, alerts, next_id, now>>

\* clear_buffer that clears the alert manager's alerts with the buffer.
ClearBuffer_ClearsAlerts ==
    /\ op' = "clear_buffer"
    /\ arg' = Empty
    /\ ret' = <<>>
    /\ exc' = None
    /\ db_calls' = <<>>
    /\ SetIx([buffer |-> <<>>, by_source |-> Empty, by_target |-> Empty,
              by_type |-> Empty])
    /\ alerts' = <<>>
    /\ UNCHANGED <<bfVars, pre, cfgVars, rules, next_id, now>>

\* CorrelationEngine.clear_buffer()
ClearBuffer ==
    /\ op' = "clear_buffer"
    /\ arg' = Empty
    /\ ret' = <<>>
    /\ exc' = None
    /\ db_calls' = <<>>
    /\ SetIx([buffer |-> <<>>, by_source |-> Empty, by_target |-> Empty,
              by_type |-> Empty])
    /\ UNCHANGED <<bfVars, pre, cfgVars, rules, alerts, next_id, now>>

\* A query: q is the call's arguments, nothing but the result changes.
Query(name, q, result) ==
    /\ op' = name
    /\ arg' = q
    /\ ret' = result
    /\ exc' = None
    /\ db_calls' = <<>>
    /\ UNCHANGED <<bfVars, pre, engVars, now>>

\* get_events_by_source that runs the eviction before it reads the index.
QueryBySource_Evicts(q) ==
    LET cleaned == CleanupOldEvents(Ix)
    IN  /\ op' = "get_events_by_source"
        /\ arg' = q
        /\ ret' = GetEventsBySource(cleaned, q)
        /\ exc' = None
        /\ db_calls' = <<>>
        /\ SetIx(cleaned)
        /\ UNCHANGED <<bfVars, pre, cfgVars, rules, alerts, next_id, now>>

\* CorrelationEngine.get_events_by_source(source_ip, event_types, time_window)
QueryBySource(q) == Query("get_events_by_source", q, GetEventsBySource(Ix, q))

\* CorrelationEngine.get_events_by_target(target_ip, event_types, time_window)
QueryByTarget(q) == Query("get_events_by_target", q, GetEventsByTarget(Ix, q))

\* CorrelationEngine.get_events_by_type(event_type, time_window)
QueryByType(q) == Query("get_events_by_type", q, GetEventsByType(Ix, q))

\* The clock moves on by a second.
Tick ==
    /\ now < MaxTs
    /\ now' = now + 1
    /\ op' = "tick"
    /\ arg' = Empty
    /\ ret' = <<>>
    /\ exc' = None
    /\ db_calls' = <<>>
    /\ UNCHANGED <<bfVars, pre, engVars>>

(***************************************************************************)
(* Inputs of the engine's index: events of two types from two sources, to  *)
(* one target, with and without the optional addresses, and with empty     *)
(* addresses.                                                              *)
(***************************************************************************)
PortScan    == <<"port_", "scan">>
FailedLogin == Str("failed_login")

IdxShapes ==
    {[event_type |-> PortScan,    source_ip |-> "10.0.0.5", target_ip |-> "10.0.0.9"],
     [event_type |-> FailedLogin, source_ip |-> "10.0.0.5"],
     [event_type |-> FailedLogin, source_ip |-> "10.0.0.6", target_ip |-> "10.0.0.9"],
     [event_type |-> PortScan,    source_ip |-> "", target_ip |-> ""]}

\* The engine's events are stamped no later than the clock reads.
Stamps == {t \in Timestamps : t <= now}

IdxEvents == {Merge(shape, [timestamp |-> t]) : shape \in IdxShapes, t \in Stamps}

\* The engine as constructed, its rules the built-in defaults with the
\* windows scaled to the model's clock.
ScaledDefaultRules ==
    <<[name |-> "Reconnaissance and Attack",
       events |-> <<PortScan, FailedLogin>>,
       same_source |-> TRUE, time_window |-> MaxWindow, severity |-> "HIGH"],
      [name |-> "Distributed Brute-Force",
       events |-> <<FailedLogin>>,
       same_target |-> TRUE, different_sources |-> TRUE, count |-> MaxBuffer,
       time_window |-> 1, severity |-> "CRITICAL"],
      [name |-> "Suspicious Service Access",
       events |-> <<PortScan, Str("service_banner")>>,
       suspicious_services |-> <<"telnet", "ftp", "smb">>,
       severity |-> "MEDIUM"]>>

\* CorrelationEngine.__init__ with its RuleEngine and AlertManager; the
\* configured rules are rule_list, alerts.enabled is sink_enabled.
InitEngineWith(rule_list, sink_enabled) ==
    /\ enabled = TRUE
    /\ alerts_enabled = sink_enabled
    /\ time_windows = 1..MaxWindow
    /\ event_buffer = <<>>
    /\ event_by_source = Empty
    /\ event_by_target = Empty
    /\ event_by_type = Empty
    /\ rules = rule_list
    /\ alerts = <<>>
    /\ next_id = 0

\* The index is exercised with one configured rule, the built-in
\* suspicious-service rule.
InitEngine == InitEngineWith(<<ScaledDefaultRules[3]>>, TRUE)

InitDetectorIdle ==
    /\ threshold = MaxThreshold
    /\ time_window = MaxWindow
    /\ alert_on_success = TRUE
    /\ failed_attempts = Empty
    /\ since_clear = Empty

Init == InitEngine /\ InitDetectorIdle /\ now = 0 /\ InitCall

Next ==
    \/ \E event \in IdxEvents : AddEvent(event, {})
    \/ ClearBuffer
    \/ Tick

Spec == Init /\ [][Next]_vars

(***************************************************************************)
(* The queries: events from and to one address and from a second one, and  *)
(* queries for keys that are indexed and for keys that are not, with no    *)
(* type list, an empty one and one of two types.                           *)
(***************************************************************************)
QueryShapes ==
    {[event_type |-> PortScan,    source_ip |-> "10.0.0.5", target_ip |-> "10.0.0.9"],
     [event_type |-> FailedLogin, source_ip |-> "10.0.0.9", target_ip |-> "10.0.0.5"],
     [event_type |-> Str("scan"), source_ip |-> "10.0.0.5", target_ip |-> "10.0.0.5"]}

QueryEvents ==
    {Merge(shape, [timestamp |-> t]) : shape \in QueryShapes, t \in Stamps}

IpKeys   == {"10.0.0.5", "10.0.0.7"}
TypeKeys == {PortScan, Str("port_")}

TypeLists == {<<>>, <<PortScan, FailedLogin>>}

IpQueries ==
    {[key |-> k, time_window |-> w] : k \in IpKeys, w \in 1..MaxWindow}
    \cup {[key |-> k, time_window |-> w, event_types |-> l] :
            k \in IpKeys, w \in 1..MaxWindow, l \in TypeLists}

TypeQueries == {[key |-> k, time_window |-> w] : k \in TypeKeys, w \in 1..MaxWindow}

NextQuery ==
    \/ \E event \in QueryEvents : AddEvent(event, {})
    \/ \E q \in IpQueries : QueryBySource(q)
    \/ \E q \in IpQueries : QueryByTarget(q)
    \/ \E q \in TypeQueries : QueryByType(q)
    \/ Tick

SpecQuery == Init /\ [][NextQuery]_vars


(***************************************************************************)
(* The rule engine: events of types that contain one another, from two     *)
(* sources and from none, to one target and to none; a same-source rule    *)
(* and a distributed same-target rule, each with a window inside the       *)
(* engine's time_windows and with a wider one.  The alert manager is       *)
(* switched off (alerts.enabled), so no alert is stored.                   *)
(***************************************************************************)
PortScanAggressive == <<"port_", "scan", "_aggressive">>

RuleShapes ==
    {[event_type |-> PortScan,           source_ip |-> "10.0.0.5", target_ip |-> "10.0.0.9"],
     [event_type |-> FailedLogin,        source_ip |-> "10.0.0.5", target_ip |-> "10.0.0.9"],
     [event_type |-> FailedLogin,        source_ip |-> "10.0.0.6", target_ip |-> "10.0.0.9"],
     [event_type |-> PortScanAggressive, source_ip |-> "10.0.0.6"],
     [event_type |-> FailedLogin,        target_ip |-> "10.0.0.9"]}

\* Events reach the engine as they happen.
RuleEvents == {Merge(shape, [timestamp |-> now]) : shape \in RuleShapes}

SameSourceRule(rule_name, window) ==
    [name |-> rule_name,
     events |-> <<PortScan, FailedLogin>>,
     same_source |-> TRUE, time_window |-> window, severity |-> "HIGH"]

DistributedRule(rule_name, window, min_count) ==
    [name |-> rule_name,
     events |-> <<FailedLogin>>,
     same_target |-> TRUE, different_sources |-> TRUE, count |-> min_count,
     time_window |-> window, severity |-> "CRITICAL"]

\* The configured rules look back one tick; the rules added at run time look
\* back further than the widest of the engine's time_windows.
ConfiguredRules ==
    {SameSourceRule("Reconnaissance and Attack", 1),
     DistributedRule("Distributed Brute-Force", 1, 2)}
AddedRules ==
    {SameSourceRule("Slow Reconnaissance", MaxWindow + 1),
     DistributedRule("Slow Distributed Brute-Force", MaxWindow + 1, MaxBuffer)}

InitRules ==
    /\ \E rule \in ConfiguredRules : InitEngineWith(<<rule>>, FALSE)
    /\ InitDetectorIdle
    /\ now = 0
    /\ InitCall

\* RuleEngine.add_rule(rule)
AddRule(rule) ==
    /\ Len(rules) < MaxRules
    /\ rules' = Append(rules, rule)
    /\ op' = "add_rule"
    /\ arg' = rule
    /\ ret' = <<>>
    /\ exc' = None
    /\ db_calls' = <<>>
    /\ UNCHANGED <<bfVars, pre, cfgVars, idxVars, alerts, next_id, now>>

\* remove_rule that removes the first rule of the name and keeps the others
\* of that name.
RemoveRule_FirstOnly(rule_name) ==
    LET named == {i \in 1..Len(rules) : Get(rules[i], "name", None) = rule_name}
        first == CHOOSE i \in named : \A j \in named : i <= j
        kept  == IF named = {} THEN rules
                 ELSE SubSeq(rules, 1, first - 1) \o SubSeq(rules, first + 1, Len(rules))
    IN  /\ rules' = kept
        /\ op' = "remove_rule"
        /\ arg' = [name |-> rule_name]
        /\ ret' = <<[removed |-> Len(kept) < Len(rules)]>>
        /\ exc' = None
        /\ db_calls' = <<>>
        /\ UNCHANGED <<bfVars, pre, cfgVars, idxVars, alerts, next_id, now>>

\* RuleEngine.remove_rule(rule_name); ret[1].removed is the boolean it returns.
RemoveRule(rule_name) ==
    LET initial_count == Len(rules)
        kept == SelectSeq(rules, LAMBDA r : Get(r, "name", None) # rule_name)
    IN  /\ rules' = kept
        /\ op' = "remove_rule"
        /\ arg' = [name |-> rule_name]
        /\ ret' = <<[removed |-> Len(kept) < initial_count]>>
        /\ exc' = None
        /\ db_calls' = <<>>
        /\ UNCHANGED <<bfVars, pre, cfgVars, idxVars, alerts, next_id, now>>

NextRules ==
    \/ \E event \in RuleEvents : AddEvent(event, {})
    \/ \E rule \in AddedRules : AddRule(rule)
    \/ Tick

SpecRules == InitRules /\ [][NextRules]_vars

(***************************************************************************)
(* The rule modes: a same_target rule that asks for no distinct sources, a *)
(* suspicious-service rule whose list is written in mixed case, and a rule *)
(* that sets no mode the engine knows; events with the service in lower    *)
(* and in upper case, without one and with a null one.                     *)
(***************************************************************************)
CountRule ==
    [name |-> "Target Flood",
     events |-> <<FailedLogin>>,
     same_target |-> TRUE, count |-> 2,
     time_window |-> MaxWindow, severity |-> "HIGH"]

ServiceRule ==
    [name |-> "Suspicious Service Access",
     events |-> <<PortScan, Str("service_banner")>>,
     suspicious_services |-> <<"telnet", "SMB">>,
     severity |-> "MEDIUM"]

UnknownModeRule ==
    [name |-> "Same User",
     events |-> <<PortScan, FailedLogin>>,
     same_user |-> TRUE,
     time_window |-> MaxWindow, severity |-> "LOW"]

ModeRuleLists == {<<UnknownModeRule, ServiceRule>>, <<CountRule, UnknownModeRule>>}

ModeShapes ==
    {[event_type |-> PortScan, source_ip |-> "10.0.0.5", service |-> "telnet"],
     [event_type |-> PortScan, source_ip |-> "10.0.0.5", service |-> "TELNET"],
     [event_type |-> PortScan, source_ip |-> "10.0.0.5", service |-> "smb"],
     [event_type |-> PortScan, source_ip |-> "10.0.0.5", service |-> None],
     [event_type |-> PortScan, source_ip |-> "10.0.0.5"],
     [event_type |-> FailedLogin, source_ip |-> "10.0.0.5", target_ip |-> "10.0.0.9"],
     [event_type |-> FailedLogin, source_ip |-> "10.0.0.5"]}

ModeEvents == {Merge(shape, [timestamp |-> now]) : shape \in ModeShapes}

InitModes ==
    /\ \E rule_list \in ModeRuleLists : InitEngineWith(rule_list, FALSE)
    /\ InitDetectorIdle
    /\ now = 0
    /\ InitCall

NextModes ==
    \/ \E event \in ModeEvents : AddEvent(event, {})
    \/ Tick

SpecModes == InitModes /\ [][NextModes]_vars

(***************************************************************************)
(* The engine with its built-in rules and its alert manager, switched on   *)
(* or off: a port scan that finds telnet and failed logins from two        *)
(* sources, one at a time and in batches, with the store failing on any    *)
(* of the alerts.                                                          *)
(***************************************************************************)
SinkShapes ==
    {[event_type |-> PortScan,    source_ip |-> "10.0.0.5", target_ip |-> "10.0.0.9",
      service |-> "telnet"],
     [event_type |-> FailedLogin, source_ip |-> "10.0.0.5", target_ip |-> "10.0.0.9"],
     [event_type |-> FailedLogin, source_ip |-> "10.0.0.6", target_ip |-> "10.0.0.9"]}

SinkEvents == {Merge(shape, [timestamp |-> now]) : shape \in SinkShapes}

\* The alerts of one call the store may fail on.
Failures == SUBSET (1..MaxRules)

InitSink ==
    /\ \E sink_enabled \in BOOLEAN : InitEngineWith(ScaledDefaultRules, sink_enabled)
    /\ InitDetectorIdle
    /\ now = 0
    /\ InitCall

NextSink ==
    \/ \E event \in SinkEvents, failing \in Failures : AddEvent(event, failing)
    \/ ClearBuffer
    \/ GetStatistics
    \/ Tick

SpecSink == InitSink /\ [][NextSink]_vars

\* The lists add_events is called with: none, one or two events.
SinkBatches ==
    {<<>>} \cup {<<e>> : e \in SinkEvents} \cup {<<d, e>> : d, e \in SinkEvents}

InitBatch ==
    /\ InitEngineWith(ScaledDefaultRules, TRUE)
    /\ InitDetectorIdle
    /\ now = 0
    /\ InitCall

NextBatch ==
    \/ \E events \in SinkBatches, failing \in {{}, {1}} : AddEvents(events, failing)
    \/ Tick

SpecBatch == InitBatch /\ [][NextBatch]_vars

(***************************************************************************)
(* The rule list at run time: rule lists as configured, one of them with   *)
(* two rules of one name, rules added and removed by name between the      *)
(* events, the batches, the queries and the statistics, all within one     *)
(* second; one of the rules that add_rule is given carries a severity      *)
(* outside the five levels.                                                *)
(***************************************************************************)
SecondServiceRule ==
    [name |-> "Suspicious Service Access",
     events |-> <<PortScan>>,
     suspicious_services |-> <<"telnet">>,
     severity |-> "LOW"]

UrgentRule ==
    [name |-> "Urgent Scan",
     events |-> <<PortScan>>,
     suspicious_services |-> <<"telnet">>,
     severity |-> "URGENT"]

AdminRuleLists ==
    {ScaledDefaultRules,
     <<ScaledDefaultRules[3], ScaledDefaultRules[1], SecondServiceRule>>}

AdminAddedRules == {UrgentRule, ScaledDefaultRules[1]}

AdminRuleNames ==
    {"Reconnaissance and Attack", "Suspicious Service Access", "Urgent Scan",
     "No Such Rule"}

AdminShapes ==
    {[event_type |-> PortScan,    source_ip |-> "10.0.0.5", target_ip |-> "10.0.0.9",
      service |-> "telnet"],
     [event_type |-> FailedLogin, source_ip |-> "10.0.0.5", target_ip |-> "10.0.0.9"]}

AdminEvents == {Merge(shape, [timestamp |-> now]) : shape \in AdminShapes}

AdminBatches == {<<>>} \cup {<<d, e>> : d, e \in AdminEvents}

AdminIpQueries == {[key |-> "10.0.0.5", time_window |-> MaxWindow]}

AdminTypeQueries == {[key |-> PortScan, time_window |-> MaxWindow]}

InitAdmin ==
    /\ \E rule_list \in AdminRuleLists : InitEngineWith(rule_list, TRUE)
    /\ InitDetectorIdle
    /\ now = 0
    /\ InitCall

NextAdmin ==
    \/ \E event \in AdminEvents : AddEvent(event, {})
    \/ \E events \in AdminBatches : AddEvents(events, {})
    \/ ClearBuffer
    \/ GetStatistics
    \/ \E q \in AdminIpQueries : QueryBySource(q)
    \/ \E q \in AdminIpQueries : QueryByTarget(q)
    \/ \E q \in AdminTypeQueries : QueryByType(q)
    \/ \E rule \in AdminAddedRules : AddRule(rule)
    \/ \E rule_name \in AdminRuleNames : RemoveRule(rule_name)

SpecAdmin == InitAdmin /\ [][NextAdmin]_vars

(***************************************************************************)
(* The fuzzy match of the same-source mode: a rule that requires           *)
(* port_scan and one that requires port_scan_aggressive, each with a       *)
(* failed login, and events of the three types from one source.            *)
(***************************************************************************)
AggressiveRule ==
    [name |-> "Aggressive Reconnaissance",
     events |-> <<PortScanAggressive, FailedLogin>>,
     same_source |-> TRUE, time_window |-> MaxWindow, severity |-> "HIGH"]

FuzzyRules == <<AggressiveRule, SameSourceRule("Reconnaissance and Attack", MaxWindow)>>

FuzzyShapes ==
    {[event_type |-> PortScan,           source_ip |-> "10.0.0.5"],
     [event_type |-> PortScanAggressive, source_ip |-> "10.0.0.5"],
     [event_type |-> FailedLogin,        source_ip |-> "10.0.0.5"]}

FuzzyEvents == {Merge(shape, [timestamp |-> now]) : shape \in FuzzyShapes}

InitFuzzy ==
    /\ InitEngineWith(FuzzyRules, FALSE)
    /\ InitDetectorIdle
    /\ now = 0
    /\ InitCall

NextFuzzy ==
    \/ \E event \in FuzzyEvents : AddEvent(event, {})
    \/ ClearBuffer
    \/ Tick

SpecFuzzy == InitFuzzy /\ [][NextFuzzy]_vars

(***************************************************************************)
(* The engine and the detector in one process, as the command line builds  *)
(* them: LogAnalyzer feeds the detector, CorrelationEngine.add_event gets  *)
(* the same failed logins.                                                 *)
(***************************************************************************)
HostEvents ==
    {[event_type |-> Str("failed_password"), source_ip |-> "10.0.0.5",
      username |-> "admin", timestamp |-> now]}

InitHost == InitDetectorIdle /\ InitEngine /\ now = 0 /\ InitCall

NextHost ==
    \/ \E event \in HostEvents, db_ok \in BOOLEAN : BFAddEvent(event, db_ok)
    \/ \E event \in HostEvents : AddEvent(event, {})
    \/ Tick

SpecHost == InitHost /\ [][NextHost]_vars

InitBF == InitDetector /\ InitEngine /\ now = 0 /\ InitCall

NextBF == \E event \in BFEvents, db_ok \in BOOLEAN : BFAddEvent(event, db_ok)

SpecBF == InitBF /\ [][NextBF]_vars

(***************************************************************************)
(* Lazy eviction: events that age while the clock moves on, between the    *)
(* statistics, the rule list and the queries; the queries look back one    *)
(* second, as far as the widest of the engine's time_windows, and a second *)
(* further.                                                                *)
(***************************************************************************)
LazyShapes ==
    {[event_type |-> PortScan,    source_ip |-> "10.0.0.5", target_ip |-> "10.0.0.9"],
     [event_type |-> FailedLogin, source_ip |-> "10.0.0.5"]}

LazyEvents == {Merge(shape, [timestamp |-> t]) : shape \in LazyShapes, t \in Stamps}

LazyWindows == {1, MaxWindow, MaxWindow + 1}

LazySourceQueries == {[key |-> "10.0.0.5", time_window |-> w] : w \in LazyWindows}
LazyTargetQueries == {[key |-> "10.0.0.9", time_window |-> w] : w \in LazyWindows}
LazyTypeQueries   == {[key |-> PortScan, time_window |-> w] : w \in LazyWindows}

\* RuleEngine.get_rules(): a copy of the rule list.
GetRules ==
    /\ op' = "get_rules"
    /\ arg' = Empty
    /\ ret' = rules
    /\ exc' = None
    /\ db_calls' = <<>>
    /\ UNCHANGED <<bfVars, pre, engVars, now>>

NextLazy ==
    \/ \E event \in LazyEvents : AddEvent(event, {})
    \/ ClearBuffer
    \/ GetStatistics
    \/ GetRules
    \/ \E q \in LazySourceQueries : QueryBySource(q)
    \/ \E q \in LazyTargetQueries : QueryByTarget(q)
    \/ \E q \in LazyTypeQueries : QueryByType(q)
    \/ Tick

SpecLazy == Init /\ [][NextLazy]_vars

(***************************************************************************)
(* The gate on the event's type: rules of the three modes, one without an  *)
(* events list and one with an empty list, and events whose type holds a   *)
(* required type, is held by one, is another type, or is missing.          *)
(***************************************************************************)
GateRules ==
    <<[name |-> "No Types", same_source |-> TRUE,
       time_window |-> MaxWindow, severity |-> "LOW"],
      [name |-> "Empty Types", events |-> <<>>,
       suspicious_services |-> <<"telnet">>, severity |-> "LOW"],
      [name |-> "Scan From Source", events |-> <<PortScan>>,
       same_source |-> TRUE, time_window |-> MaxWindow, severity |-> "HIGH"],
      [name |-> "Logins To Target", events |-> <<FailedLogin>>,
       same_target |-> TRUE, different_sources |-> TRUE, count |-> 1,
       unique_sources_min |-> 1, time_window |-> MaxWindow, severity |-> "HIGH"],
      [name |-> "Telnet Scan", events |-> <<PortScan>>,
       suspicious_services |-> <<"telnet">>, severity |-> "MEDIUM"]>>

GateShapes ==
    {[event_type |-> PortScanAggressive, source_ip |-> "10.0.0.5",
      target_ip |-> "10.0.0.9", service |-> "telnet"],
     [event_type |-> Str("scan"), source_ip |-> "10.0.0.5",
      target_ip |-> "10.0.0.9", service |-> "telnet"],
     [event_type |-> FailedLogin, source_ip |-> "10.0.0.5", target_ip |-> "10.0.0.9"],
     [source_ip |-> "10.0.0.5", target_ip |-> "10.0.0.9", service |-> "telnet"]}

GateEvents == {Merge(shape, [timestamp |-> now]) : shape \in GateShapes}

InitGate ==
    /\ InitEngineWith(GateRules, FALSE)
    /\ InitDetectorIdle
    /\ now = 0
    /\ InitCall

NextGate ==
    \/ \E event \in GateEvents : AddEvent(event, {})
    \/ ClearBuffer
    \/ Tick

SpecGate == InitGate /\ [][NextGate]_vars

(***************************************************************************)
(* The order of the steps of add_event: events that arrive late, some of   *)
(* them older than the eviction keeps; a same-source rule that looks back  *)
(* further than the widest of the engine's time_windows and a distributed  *)
(* rule that looks back one second.                                        *)
(***************************************************************************)
OrderRules ==
    <<SameSourceRule("Slow Reconnaissance", MaxWindow + 1),
      DistributedRule("Distributed Brute-Force", 1, 2)>>

OrderShapes ==
    {[event_type |-> PortScan,    source_ip |-> "10.0.0.5", target_ip |-> "10.0.0.9"],
     [event_type |-> FailedLogin, source_ip |-> "10.0.0.5", target_ip |-> "10.0.0.9"],
     [event_type |-> FailedLogin, source_ip |-> "10.0.0.6", target_ip |-> "10.0.0.9"]}

OrderEvents == {Merge(shape, [timestamp |-> t]) : shape \in OrderShapes, t \in Stamps}

InitOrder ==
    /\ InitEngineWith(OrderRules, FALSE)
    /\ InitDetectorIdle
    /\ now = 0
    /\ InitCall

NextOrder ==
    \/ \E event \in OrderEvents : AddEvent(event, {})
    \/ ClearBuffer
    \/ Tick

SpecOrder == InitOrder /\ [][NextOrder]_vars

(***************************************************************************)
(* Rules that set several modes: one with the three of them, one without   *)
(* same_source and one without same_target; port scans that found telnet,  *)
(* with and without a source and a target, and failed logins of two        *)
(* sources.                                                                *)
(***************************************************************************)
AllModesRule ==
    [name |-> "All Modes",
     events |-> <<PortScan, FailedLogin>>,
     same_source |-> TRUE,
     same_target |-> TRUE, different_sources |-> TRUE, count |-> 2,
     suspicious_services |-> <<"telnet">>,
     time_window |-> MaxWindow, severity |-> "HIGH"]

TargetServiceRule ==
    [name |-> "Target Or Service",
     events |-> <<PortScan, FailedLogin>>,
     same_target |-> TRUE, different_sources |-> TRUE, count |-> 2,
     suspicious_services |-> <<"telnet">>,
     time_window |-> MaxWindow, severity |-> "MEDIUM"]

SourceServiceRule ==
    [name |-> "Source Or Service",
     events |-> <<PortScan, FailedLogin>>,
     same_source |-> TRUE,
     suspicious_services |-> <<"telnet">>,
     time_window |-> MaxWindow, severity |-> "MEDIUM"]

FallRuleLists == {<<AllModesRule>>, <<TargetServiceRule, SourceServiceRule>>}

FallShapes ==
    {[event_type |-> PortScan, source_ip |-> "10.0.0.5", target_ip |-> "10.0.0.9",
      service |-> "telnet"],
     [event_type |-> PortScan, target_ip |-> "10.0.0.9", service |-> "telnet"],
     [event_type |-> PortScan, source_ip |-> "10.0.0.5", service |-> "telnet"],
     [event_type |-> FailedLogin, source_ip |-> "10.0.0.5", target_ip |-> "10.0.0.9"],
     [event_type |-> FailedLogin, source_ip |-> "10.0.0.6", target_ip |-> "10.0.0.9"]}

FallEvents == {Merge(shape, [timestamp |-> now]) : shape \in FallShapes}

InitFall ==
    /\ \E rule_list \in FallRuleLists : InitEngineWith(rule_list, FALSE)
    /\ InitDetectorIdle
    /\ now = 0
    /\ InitCall

NextFall ==
    \/ \E event \in FallEvents : AddEvent(event, {})
    \/ ClearBuffer
    \/ Tick

SpecFall == InitFall /\ [][NextFall]_vars

(***************************************************************************)
(* clear_buffer among the other calls: the engine with its alert manager   *)
(* and the detector in one process, events one at a time and in batches,   *)
(* rules added and removed, all within one second.                         *)
(***************************************************************************)
ClearShapes ==
    {[event_type |-> PortScan, source_ip |-> "10.0.0.5", target_ip |-> "10.0.0.9",
      service |-> "telnet"]}

ClearEvents == {Merge(shape, [timestamp |-> now]) : shape \in ClearShapes}

ClearBatches == {<<>>} \cup {<<d, e>> : d, e \in ClearEvents}

ClearAddedRules == {SecondServiceRule}

ClearRuleNames == {"Suspicious Service Access", "No Such Rule"}

InitClear ==
    /\ InitEngineWith(<<ScaledDefaultRules[3]>>, TRUE)
    /\ InitDetectorIdle
    /\ now = 0
    /\ InitCall

NextClear ==
    \/ \E event \in ClearEvents : AddEvent(event, {})
    \/ \E events \in ClearBatches : AddEvents(events, {})
    \/ ClearBuffer
    \/ GetStatistics
    \/ \E rule \in ClearAddedRules : AddRule(rule)
    \/ \E rule_name \in ClearRuleNames : RemoveRule(rule_name)
    \/ \E event \in HostEvents : BFAddEvent(event, TRUE)

SpecClear == InitClear /\ [][NextClear]_vars

(***************************************************************************)
(* The engine configured with correlation.enabled set or unset, with the   *)
(* built-in rules and its alert manager on.                                *)
(***************************************************************************)
\* CorrelationEngine.__init__, correlation.enabled being on.
InitEngineSwitched(on) ==
    /\ enabled = on
    /\ alerts_enabled = TRUE
    /\ time_windows = 1..MaxWindow
    /\ event_buffer = <<>>
    /\ event_by_source = Empty
    /\ event_by_target = Empty
    /\ event_by_type = Empty
    /\ rules = ScaledDefaultRules
    /\ alerts = <<>>
    /\ next_id = 0

InitSwitch ==
    /\ \E on \in BOOLEAN : InitEngineSwitched(on)
    /\ InitDetectorIdle
    /\ now = 0
    /\ InitCall

NextSwitch ==
    \/ \E event \in SinkEvents : AddEvent(event, {})
    \/ ClearBuffer
    \/ GetStatistics
    \/ Tick

SpecSwitch == InitSwitch /\ [][NextSwitch]_vars

(***************************************************************************)
(* The detector with alert_on_success_after_failures set and unset, and    *)
(* events it does not track: without a source_ip or with an empty one, and *)
(* of a type that is no login.  Timestamps arrive in any order.            *)
(***************************************************************************)
DetSources == {[source_ip |-> "10.0.0.5"], [source_ip |-> ""], Empty}

DetEvents ==
    {Merge(Merge(Merge(k, s), u), [timestamp |-> t]) :
        k \in BFKinds,
        s \in DetSources,
        u \in {[username |-> n] : n \in BFUsers},
        t \in Timestamps}

InitDetectorAny ==
    /\ threshold \in 1..MaxThreshold
    /\ time_window \in 1..MaxWindow
    /\ alert_on_success \in BOOLEAN
    /\ failed_attempts = Empty
    /\ since_clear = Empty

InitDet == InitDetectorAny /\ InitEngine /\ now = 0 /\ InitCall

NextDet == \E event \in DetEvents, db_ok \in BOOLEAN : BFAddEvent(event, db_ok)

SpecDet == InitDet /\ [][NextDet]_vars

(***************************************************************************)
(* The detector's keys: logins of two sources and two users, and logins    *)
(* that name no user.                                                      *)
(***************************************************************************)
KeyShapes ==
    {[source_ip |-> "10.0.0.5", username |-> "admin"],
     [source_ip |-> "10.0.0.5", username |-> "root"],
     [source_ip |-> "10.0.0.6", username |-> "admin"],
     [source_ip |-> "10.0.0.5"]}

KeyKinds == {[event_type |-> Str("failed_password")],
             [event_type |-> Str("accepted_password")]}

\* Logins a second apart, inside one window, and further apart than a window.
KeyStamps == {0, 1, MaxTs}

KeyEvents ==
    {Merge(Merge(k, s), [timestamp |-> t]) :
        k \in KeyKinds, s \in KeyShapes, t \in KeyStamps}

InitKeys == InitDetectorIdle /\ InitEngine /\ now = 0 /\ InitCall

NextKeys == \E event \in KeyEvents : BFAddEvent(event, TRUE)

SpecKeys == InitKeys /\ [][NextKeys]_vars

(***************************************************************************)
(* The detector fed in batches: failed and successful logins of one key,   *)
(* and an event that is both (a failed_password with the event id of a     *)
(* logon), one at a time and in lists of none, one and two.                *)
(***************************************************************************)
BatchKinds == {[event_type |-> Str("failed_password")],
               [event_type |-> Str("accepted_password")],
               [event_type |-> Str("failed_password"), event_id |-> 4624]}

BatchLogins ==
    {Merge(k, [source_ip |-> "10.0.0.5", username |-> "admin", timestamp |-> t]) :
        k \in BatchKinds, t \in KeyStamps}

LoginBatches ==
    {<<>>} \cup {<<e>> : e \in BatchLogins} \cup {<<d, e>> : d, e \in BatchLogins}

InitAnalyze == InitDetector /\ InitEngine /\ now = 0 /\ InitCall

NextAnalyze ==
    \/ \E event \in BatchLogins : BFAddEvent(event, TRUE)
    \/ \E events \in LoginBatches : BFAnalyzeEvents(events)

SpecAnalyze == InitAnalyze /\ [][NextAnalyze]_vars

(***************************************************************************)
(* Properties of the BruteForceDetector (checked under SpecBF).            *)
(***************************************************************************)
\* The key under which add_event tracks an event.
KeyOf(event) == <<Get(event, "source_ip", None), Get(event, "username", "unknown")>>

\* The last call was the detector's add_event on a failed login it tracks.
FailedLoginProcessed ==
    /\ op = "bf.add_event"
    /\ Truthy(Get(arg, "source_ip", None))
    /\ match_failed_login(arg)

\* The last call was the detector's add_event on a successful login.
SuccessfulLoginProcessed ==
    /\ op = "bf.add_event"
    /\ Truthy(Get(arg, "source_ip", None))
    /\ ~match_failed_login(arg)
    /\ match_successful_login(arg)

\* How many entries of ts_list are strictly newer than cutoff.
CountNewer(ts_list, cutoff) ==
    Cardinality({i \in 1..Len(ts_list) : ts_list[i] > cutoff})

\* C1: a failed login returns a brute_force_detected alert (HIGH) if and only
\* if the number of timestamps tracked for its key, after the append and the
\* prune, is at least the threshold; the alert's event_count is that number;
\* this holds on every failed login, so the alert repeats while the count
\* stays at or above the threshold.
C1_AlertIffCountReachesThreshold ==
    FailedLoginProcessed =>
        LET n == Len(failed_attempts[KeyOf(arg)])
        IN  /\ (n >= threshold) <=> (Len(ret) = 1)
            /\ (n < threshold) <=> (ret = <<>>)
            /\ Len(ret) = 1 =>
                  /\ ret[1].alert_type = "brute_force_detected"
                  /\ ret[1].severity = "HIGH"
                  /\ ret[1].event_count = n

\* C1 witness: an alert repeated after the threshold was crossed.
C1_Witness ==
    /\ FailedLoginProcessed
    /\ Len(ret) = 1
    /\ ret[1].event_count = threshold + 1

\* C2: when a failed login with timestamp t is processed, the attempts
\* tracked for its key are, in order, the previously tracked attempts with
\* timestamp > t - time_window followed by t: one exactly time_window old
\* (or older) is dropped, every newer one is kept and counted.
C2_WindowBoundaryExclusive ==
    FailedLoginProcessed =>
        LET key    == KeyOf(arg)
            before == Tracked(pre, key)
            after  == failed_attempts[key]
            t      == arg.timestamp
        IN  /\ Len(after) = CountNewer(before, t - time_window) + 1
            /\ \A i \in 1..Len(after) : after[i] > t - time_window
            /\ \A i \in 1..Len(before) :
                  before[i] > t - time_window => Count(after, before[i]) >= Count(before, before[i])
            /\ \A i \in 1..Len(before) :
                  before[i] <= t - time_window => before[i] \notin Range(after)

\* C2 witness: an attempt exactly time_window old is dropped while a newer
\* one is kept.
C2_Witness ==
    /\ FailedLoginProcessed
    /\ \E i, j \in 1..Len(Tracked(pre, KeyOf(arg))) :
          /\ Tracked(pre, KeyOf(arg))[i] = arg.timestamp - time_window
          /\ Tracked(pre, KeyOf(arg))[j] > arg.timestamp - time_window
    /\ Len(failed_attempts[KeyOf(arg)]) = 2

\* C3: with alert_on_success_after_failures enabled, a successful login for
\* a key with at least 2 tracked failures newer than the cutoff returns
\* exactly one successful_brute_force alert (CRITICAL) whose failed_attempts
\* is the number of those failures, and removes the key from the tracking
\* dict; a failed login for a key that is not tracked leaves a count of 1.
C3_SuccessAfterFailuresClears ==
    /\ (SuccessfulLoginProcessed /\ alert_on_success
           /\ CountNewer(Tracked(pre, KeyOf(arg)), arg.timestamp - time_window) >= 2) =>
          /\ Len(ret) = 1
          /\ ret[1].alert_type = "successful_brute_force"
          /\ ret[1].severity = "CRITICAL"
          /\ ret[1].failed_attempts =
                CountNewer(Tracked(pre, KeyOf(arg)), arg.timestamp - time_window)
          /\ KeyOf(arg) \notin DOMAIN failed_attempts
    /\ (FailedLoginProcessed /\ KeyOf(arg) \notin DOMAIN pre) =>
          failed_attempts[KeyOf(arg)] = <<arg.timestamp>>

\* C3 witness: a successful_brute_force alert was returned and the key is gone.
C3_Witness ==
    /\ SuccessfulLoginProcessed
    /\ Len(ret) = 1
    /\ ret[1].failed_attempts >= 2
    /\ KeyOf(arg) \notin DOMAIN failed_attempts

(***************************************************************************)
(* The detector and CorrelationEngine.add_event (checked under SpecHost).  *)
(***************************************************************************)
\* The buffered failed logins of the event's (source_ip, username) key that
\* are newer than the event's timestamp less the detector's window.
BufferedFailures(event) ==
    SelectSeq(event_buffer,
              LAMBDA e : /\ match_failed_login(e)
                         /\ KeyOf(e) = KeyOf(event)
                         /\ e.timestamp > event.timestamp - time_window)

\* C4: add_event runs the BruteForceDetector too: once the failed logins fed
\* through add_event for one (source_ip, username) key within the detector's
\* window number failed_login_threshold, the list add_event returns holds a
\* brute_force_detected alert.
C4_AddEventReturnsBruteForceAlert ==
    (/\ op = "add_event"
     /\ enabled
     /\ match_failed_login(arg)
     /\ Len(BufferedFailures(arg)) >= threshold)
        => \E i \in 1..Len(ret) : ret[i].alert_type = "brute_force_detected"

(***************************************************************************)
(* Properties of the event index (checked under Spec and SpecQuery).       *)
(***************************************************************************)
\* The addresses and types that occur in the buffer or as an index key.
BufferValues(field) ==
    {Get(event_buffer[i], field, None) : i \in 1..Len(event_buffer)}

\* The buffered events whose field has the value, in buffer order.
BufferedWith(field, value) ==
    SelectSeq(event_buffer, LAMBDA e : field \in DOMAIN e /\ e[field] = value)

\* C5: an index list holds exactly the buffered events with that source_ip /
\* target_ip / event_type, as often as the buffer holds them and in buffer
\* order; an event that is not buffered is in no index, an event without
\* the address (or with an empty one) is in no address index, and no key
\* maps to an empty list.
C5_IndexMatchesBuffer ==
    /\ \A ip \in (DOMAIN event_by_source \cup BufferValues("source_ip")) \ {None, ""} :
          /\ ip \in DOMAIN event_by_source
          /\ event_by_source[ip] = BufferedWith("source_ip", ip)
    /\ \A ip \in (DOMAIN event_by_target \cup BufferValues("target_ip")) \ {None, ""} :
          /\ ip \in DOMAIN event_by_target
          /\ event_by_target[ip] = BufferedWith("target_ip", ip)
    /\ \A type \in DOMAIN event_by_type \cup {event_buffer[i].event_type : i \in 1..Len(event_buffer)} :
          /\ type \in DOMAIN event_by_type
          /\ event_by_type[type] = BufferedWith("event_type", type)
    /\ {None, ""} \cap (DOMAIN event_by_source \cup DOMAIN event_by_target) = {}
    /\ \A k \in DOMAIN event_by_source : event_by_source[k] # <<>>
    /\ \A k \in DOMAIN event_by_target : event_by_target[k] # <<>>
    /\ \A k \in DOMAIN event_by_type : event_by_type[k] # <<>>

\* C5 witness: after an add_event that evicted an event, the indexes hold
\* two sources and a target, and the buffer an event with an empty address.
C5_Witness ==
    /\ op = "add_event"
    /\ Len(event_buffer) = MaxBuffer
    /\ Cardinality(DOMAIN event_by_source) >= 2
    /\ DOMAIN event_by_target # {}
    /\ "" \in BufferValues("source_ip")
    /\ \E i \in 1..Len(event_buffer) : event_buffer[i].timestamp < arg.timestamp

\* C6: after add_event at time now the buffer is, in insertion order, what
\* was buffered before followed by the event, without the events that are
\* not newer than now - max_window: every event newer than the cutoff stays,
\* none older than it does, nothing else is removed and nothing reordered.
\* (The claim leaves open an event exactly at the cutoff.)
C6_EvictionKeepsNewerInOrder ==
    [][(op' = "add_event" /\ enabled) =>
         LET all    == Append(event_buffer, arg')
             cutoff == now' - MaxOf(time_windows)
         IN  \/ event_buffer' = SelectSeq(all, LAMBDA e : e.timestamp > cutoff)
             \/ event_buffer' = SelectSeq(all, LAMBDA e : e.timestamp >= cutoff)]_vars

\* C6 witness: the incoming event was stale on arrival and was evicted,
\* the buffered events that are newer stayed.
C6_Witness ==
    /\ op = "add_event"
    /\ arg \notin Range(event_buffer)
    /\ Len(event_buffer) >= 2

\* What a query for q must return: the buffered events with the key in the
\* field, strictly newer than now - time_window, of one of the types when a
\* non-empty type list is passed, in buffer order.
Expected(field, q, typed) ==
    SelectSeq(event_buffer,
              LAMBDA e : /\ field \in DOMAIN e
                         /\ e[field] = q.key
                         /\ e.timestamp > now - q.time_window
                         /\ (typed /\ "event_types" \in DOMAIN q /\ q.event_types # <<>>)
                              => \E i \in 1..Len(q.event_types) :
                                     q.event_types[i] = e.event_type)

HeldOrAdded == Range(event_buffer) \cup {arg'}

\* C7: the eviction horizon is the largest time_window of the active rules,
\* those added with add_rule included: add_event evicts no event whose age
\* is less than the window of some active rule.
C7_NoEvictionInsideRuleWindow ==
    [][(op' = "add_event" /\ enabled) =>
         \A e \in HeldOrAdded :
             (\E i \in 1..Len(rules) :
                  now' - e.timestamp < Get(rules[i], "time_window", 300))
                 => e \in Range(event_buffer')]_vars

\* The alerts the last call returned for the rule.
AlertsOf(rule) == SelectSeq(ret, LAMBDA a : a.rule_name = rule.name)

\* How often the rule list holds the rule: add_rule appends a rule that is
\* there already, and each copy is evaluated.
Copies(rule) == Cardinality({i \in 1..Len(rules) : rules[i] = rule})

\* The buffered events with the value in the field that are inside the
\* rule's window.
RecentWith(rule, field, value) ==
    SelectSeq(event_buffer,
              LAMBDA e : /\ field \in DOMAIN e
                         /\ e[field] = value
                         /\ e.timestamp > now - rule.time_window)

\* Every required type of the rule is a substring of the type of some event
\* of the source inside the rule's window.
AllRequiredSeen(rule, source_ip) ==
    LET recent == RecentWith(rule, "source_ip", source_ip)
    IN  \A j \in 1..Len(rule.events) :
            \E k \in 1..Len(recent) : IsSubstring(rule.events[j], recent[k].event_type)

\* The incoming event passes the rule's gate: one of the required types is a
\* substring of its type.
PassesTypeGate(rule, event) ==
    \E j \in 1..Len(rule.events) : IsSubstring(rule.events[j], event.event_type)

\* C9: for a same-source rule and an incoming event with a source_ip whose
\* type matches a required type, add_event returns a rule_match alert of the
\* rule if and only if every required type is a substring of the type of some
\* event of that source inside the rule's window, the incoming event
\* included; with a required type unseen it returns none.  (One alert for
\* each copy of the rule in the rule list.)
C9_SameSourceFiresIffAllTypesSeen ==
    (op = "add_event" /\ enabled) =>
        \A i \in 1..Len(rules) :
            (/\ RuleFlag(rules[i], "same_source")
             /\ Truthy(Get(arg, "source_ip", None))
             /\ PassesTypeGate(rules[i], arg))
                => IF AllRequiredSeen(rules[i], arg.source_ip)
                   THEN /\ Len(AlertsOf(rules[i])) = Copies(rules[i])
                        /\ \A k \in 1..Len(AlertsOf(rules[i])) :
                              /\ AlertsOf(rules[i])[k].alert_type = "rule_match"
                              /\ AlertsOf(rules[i])[k].source_ip = arg.source_ip
                   ELSE AlertsOf(rules[i]) = <<>>

\* C9 witness: a same-source rule fired for a failed login whose source had
\* sent a port_scan_aggressive, with an older event of the source outside
\* the rule's window.
C9_Witness ==
    /\ op = "add_event"
    /\ arg.event_type = FailedLogin
    /\ \E i \in 1..Len(rules) :
          /\ RuleFlag(rules[i], "same_source")
          /\ AlertsOf(rules[i]) # <<>>
          /\ \E k \in 1..Len(event_buffer) :
                /\ event_buffer[k].event_type = PortScanAggressive
                /\ event_buffer[k].source_ip = arg.source_ip
                /\ event_buffer[k].timestamp <= now - rules[i].time_window

\* The distinct non-empty source addresses of the events.
UniqueSources(events) ==
    {ip \in {Get(events[k], "source_ip", None) : k \in 1..Len(events)} :
        ip \notin {None, ""}}

\* C10: for a same_target rule with different_sources and an incoming event
\* with a target_ip whose type matches a required type, add_event returns a
\* rule_match alert of the rule exactly when the events to that target inside
\* the rule's window number at least the rule's count and their distinct
\* non-empty sources at least unique_sources_min (2 when the rule sets
\* none); the alert carries both numbers.
C10_DistributedFiresIffCountAndSources ==
    (op = "add_event" /\ enabled) =>
        \A i \in 1..Len(rules) :
            (/\ RuleFlag(rules[i], "same_target")
             /\ RuleFlag(rules[i], "different_sources")
             /\ ~RuleFlag(rules[i], "same_source")
             /\ Truthy(Get(arg, "target_ip", None))
             /\ PassesTypeGate(rules[i], arg))
                => LET recent  == RecentWith(rules[i], "target_ip", arg.target_ip)
                       sources == Cardinality(UniqueSources(recent))
                       minimum == IF "unique_sources_min" \in DOMAIN rules[i]
                                  THEN rules[i].unique_sources_min ELSE 2
                   IN  IF Len(recent) >= rules[i].count /\ sources >= minimum
                       THEN /\ Len(AlertsOf(rules[i])) = Copies(rules[i])
                            /\ \A k \in 1..Len(AlertsOf(rules[i])) :
                                  /\ AlertsOf(rules[i])[k].alert_type = "rule_match"
                                  /\ AlertsOf(rules[i])[k].target_ip = arg.target_ip
                                  /\ AlertsOf(rules[i])[k].matched_events = Len(recent)
                                  /\ AlertsOf(rules[i])[k].unique_sources = sources
                       ELSE AlertsOf(rules[i]) = <<>>

\* C10 witness: a distributed rule fired on three events to one target from
\* two sources, one of the events without a source.
C10_Witness ==
    /\ op = "add_event"
    /\ \E i \in 1..Len(ret) :
          /\ "unique_sources" \in DOMAIN ret[i]
          /\ ret[i].matched_events = 3
          /\ ret[i].unique_sources = 2
    /\ \E k \in 1..Len(event_buffer) : "source_ip" \notin DOMAIN event_buffer[k]

\* A distributed rule stayed silent although the count was met: the events
\* to the target came from one source.
C10_SilentWitness ==
    /\ op = "add_event"
    /\ ret = <<>>
    /\ \E i \in 1..Len(rules) :
          /\ RuleFlag(rules[i], "same_target")
          /\ Truthy(Get(arg, "target_ip", None))
          /\ PassesTypeGate(rules[i], arg)
          /\ Len(RecentWith(rules[i], "target_ip", arg.target_ip)) >= rules[i].count

(***************************************************************************)
(* Properties of the rule modes (checked under SpecModes).                 *)
(***************************************************************************)
\* The rule sets the mode: a flag that is true, or a list of services that
\* is not empty.
HasMode(rule, mode) ==
    /\ mode \in DOMAIN rule
    /\ IF mode = "suspicious_services" THEN rule[mode] # <<>> ELSE rule[mode] = TRUE

\* C11: a same_target rule that does not ask for distinct sources returns a
\* rule_match alert for an incoming event with a target_ip and a matching
\* type whenever the events to that target inside the rule's window number
\* at least the rule's count (1 when the rule sets none).
C11_SameTargetFiresOnCount ==
    (op = "add_event" /\ enabled /\ exc = None) =>
        \A i \in 1..Len(rules) :
            (/\ HasMode(rules[i], "same_target")
             /\ ~HasMode(rules[i], "different_sources")
             /\ ~HasMode(rules[i], "same_source")
             /\ Truthy(Get(arg, "target_ip", None))
             /\ PassesTypeGate(rules[i], arg)
             /\ Len(RecentWith(rules[i], "target_ip", arg.target_ip))
                    >= Get(rules[i], "count", 1))
                => \E k \in 1..Len(ret) : /\ ret[k].rule_name = rules[i].name
                                          /\ ret[k].alert_type = "rule_match"

\* The service names of the list that equal the service when case is ignored.
SameIgnoringCase(service, listed) ==
    {k \in 1..Len(listed) : Lower(listed[k]) = Lower(service)}

\* C12: for a suspicious-service rule and an incoming event whose type
\* matches a required type, add_event returns a suspicious_service alert of
\* the rule if and only if the event's service, case ignored, is in the
\* rule's suspicious_services; an event without a service gets none.
C12_ServiceFiresIffListedIgnoringCase ==
    (op = "add_event" /\ enabled) =>
        \A i \in 1..Len(rules) :
            (/\ HasMode(rules[i], "suspicious_services")
             /\ ~HasMode(rules[i], "same_source")
             /\ ~HasMode(rules[i], "same_target")
             /\ PassesTypeGate(rules[i], arg))
                => ((\E k \in 1..Len(ret) : /\ ret[k].rule_name = rules[i].name
                                            /\ ret[k].alert_type = "suspicious_service")
                    <=> (/\ Get(arg, "service", None) # None
                         /\ SameIgnoringCase(arg.service,
                                             rules[i].suspicious_services) # {}))

\* C19: add_event and add_events raise for no event, whichever of the
\* optional fields are absent or null, and for no rule list.
C19_AddEventNeverRaises ==
    op \in {"add_event", "add_events"} => exc = None

\* The rule sets none of the modes the engine knows.
UnknownMode(rule) ==
    /\ ~HasMode(rule, "same_source")
    /\ ~HasMode(rule, "same_target")
    /\ ~HasMode(rule, "suspicious_services")

\* C20: a rule that sets none of same_source, same_target and
\* suspicious_services produces no alert, and evaluating it neither raises
\* nor stops the rules after it: add_event returns and raises what it would
\* with that rule taken out of the rule list.
C20_UnknownModeRuleIsSkipped ==
    (op = "add_event" /\ enabled) =>
        LET known   == SelectSeq(rules, LAMBDA rule : ~UnknownMode(rule))
            without == EvaluateFrom(known, 1, arg, Ix, <<>>, next_id - Len(ret))
        IN  /\ \A i \in 1..Len(rules) :
                  UnknownMode(rules[i]) =>
                      \A k \in 1..Len(ret) : ret[k].rule_name # rules[i].name
            /\ exc = (IF without.raised THEN "AttributeError" ELSE None)
            /\ exc = None => ret = without.alerts

\* C20 witness: the rule without a mode was first in the list and its type
\* gate let the event through; the rule after it fired.
C20_Witness ==
    /\ op = "add_event"
    /\ UnknownMode(rules[1])
    /\ PassesTypeGate(rules[1], arg)
    /\ ret # <<>>
    /\ ret[1].rule_name = rules[2].name

(***************************************************************************)
(* Properties of add_event with the built-in rules and the alert manager   *)
(* (checked under SpecSink and SpecBatch).                                 *)
(***************************************************************************)
\* The alerts of the list that the rule made.
AlertsIn(list, rule) == SelectSeq(list, LAMBDA a : a.rule_name = rule.name)

\* The place in the rule list of the rule that made the alert.
RuleIndex(alert) == CHOOSE i \in 1..Len(rules) : rules[i].name = alert.rule_name

\* The correlation ids of the alerts of the list.
IdsOf(list) == {list[k].correlation_id : k \in 1..Len(list)}

\* _evaluate_rule returns an alert for the last event, on the index as
\* add_event left it.
Fires(rule) == EvaluateRule(rule, arg, Ix, 0).alerts # <<>>

\* C13: evaluate_event returns one alert for each rule that fires on the
\* event and none for a rule that does not, in the order of the rule list,
\* each with an id of its own; nothing is held back because the rule fired
\* before: when the same event is ingested again right away, every rule
\* that fired fires again, with new ids.
C13_OneAlertPerFiringRule ==
    /\ []((op = "add_event" /\ enabled /\ exc = None) =>
            /\ \A i \in 1..Len(rules) :
                  Len(AlertsIn(ret, rules[i])) = IF Fires(rules[i]) THEN 1 ELSE 0
            /\ \A j, k \in 1..Len(ret) : j < k => RuleIndex(ret[j]) < RuleIndex(ret[k])
            /\ Cardinality(IdsOf(ret)) = Len(ret))
    /\ [][(op = "add_event" /\ op' = "add_event" /\ enabled /\ arg' = arg) =>
            /\ \A i \in 1..Len(rules) :
                  Len(AlertsIn(ret', rules[i])) >= Len(AlertsIn(ret, rules[i]))
            /\ IdsOf(ret') \cap IdsOf(ret) = {}]_vars

\* C13 witness: two rules fired on one event, in rule order, and the alert
\* manager holds an earlier alert of the second of them.
C13_Witness ==
    /\ op = "add_event"
    /\ alerts_enabled
    /\ Len(ret) = 2
    /\ Len(alerts) = 3
    /\ alerts[1].rule_name = ret[2].rule_name

\* C14: add_event passes each alert of the list it returns to the alert
\* manager once, in the order of the list, and passes it nothing else: the
\* alerts the manager holds grow by exactly that list (by nothing when the
\* manager is switched off).
C14_ForwardsReturnedAlertsInOrder ==
    [][op' = "add_event" =>
         alerts' = IF alerts_enabled THEN alerts \o ret' ELSE alerts]_vars

\* C14 witness: two alerts were forwarded behind one the manager held.
C14_Witness ==
    /\ op = "add_event"
    /\ alerts_enabled
    /\ Len(ret) = 2
    /\ Len(alerts) = 3
    /\ alerts[2] = ret[1]
    /\ alerts[3] = ret[2]

\* C15: add_events(events) leaves the engine as add_event on each event in
\* turn does and returns the lists of those calls, concatenated in order;
\* add_events([]) returns [] and changes nothing.
C15_AddEventsIsSequentialAddEvent ==
    [][op' = "add_events" =>
         LET n     == Len(arg')
             first == AddEventStep(EngineState, arg'[1], {})
             both  == AddEventStep(first, arg'[2], {})
             final == IF n = 1 THEN first ELSE both
             lists == IF n = 1 THEN first.ret ELSE first.ret \o both.ret
         IN  /\ n <= 2
             /\ IF n = 0
                THEN UNCHANGED <<idxVars, alerts, next_id>> /\ ret' = <<>>
                ELSE /\ event_buffer' = final.ix.buffer
                     /\ event_by_source' = final.ix.by_source
                     /\ event_by_target' = final.ix.by_target
                     /\ event_by_type' = final.ix.by_type
                     /\ alerts' = final.alerts
                     /\ next_id' = final.next_id
                     /\ ret' = lists
             /\ exc' = None]_vars

\* C15 witness: a batch of two events returned the alert of the first
\* followed by the alert of the second.
C15_Witness ==
    /\ op = "add_events"
    /\ Len(arg) = 2
    /\ Len(ret) = 2
    /\ ret[1].alert_type = "suspicious_service"
    /\ ret[2].alert_type = "rule_match"

\* The distinct non-empty target addresses of the events.
UniqueTargets(events) ==
    {ip \in {Get(events[k], "target_ip", None) : k \in 1..Len(events)} :
        ip \notin {None, ""}}

\* What get_statistics reported about the buffer is what the buffer holds.
StatisticsMatchBuffer ==
    /\ ret[1].events_buffered = Len(event_buffer)
    /\ ret[1].unique_sources = Cardinality(UniqueSources(event_buffer))
    /\ ret[1].unique_targets = Cardinality(UniqueTargets(event_buffer))

\* C16 as claimed: get_statistics reports the number of buffered events, of
\* their distinct non-empty sources and targets, and as total_alerts the
\* number of alerts all add_event calls have returned since construction.
C16_TotalAlertsCountsReturnedAlerts ==
    op = "get_statistics" =>
        /\ StatisticsMatchBuffer
        /\ ret[1].total_alerts = next_id

\* C16 as amended: total_alerts is the number of alerts the alert manager
\* holds, which is the number add_event has returned when alerts.enabled is
\* set and 0 when it is not.
C16_TotalAlertsCountsHeldAlerts ==
    op = "get_statistics" =>
        /\ StatisticsMatchBuffer
        /\ ret[1].total_alerts = IF alerts_enabled THEN next_id ELSE 0

\* C16 witness: statistics of a buffer of three events from two sources,
\* after add_event returned two alerts or more.
C16_Witness ==
    /\ op = "get_statistics"
    /\ alerts_enabled
    /\ ret[1].events_buffered = 3
    /\ ret[1].unique_sources = 2
    /\ ret[1].total_alerts >= 2

\* The index of an engine that holds no event.
EmptyIx == [buffer |-> <<>>, by_source |-> Empty, by_target |-> Empty,
            by_type |-> Empty]

\* C17: after clear_buffer the buffer and the three indexes are empty and
\* every query returns []; the add_event that follows is evaluated as on an
\* engine that never held an event.
C17_ClearBufferForgetsEvents ==
    /\ [](op = "clear_buffer" =>
            /\ Ix = EmptyIx
            /\ \A q \in IpQueries : /\ GetEventsBySource(Ix, q) = <<>>
                                    /\ GetEventsByTarget(Ix, q) = <<>>
            /\ \A q \in TypeQueries : GetEventsByType(Ix, q) = <<>>)
    /\ [][(op = "clear_buffer" /\ op' = "add_event" /\ enabled) =>
            LET fresh == AddEventStep([ix |-> EmptyIx, alerts |-> <<>>,
                                       next_id |-> next_id], arg', {})
            IN  /\ event_buffer' = <<arg'>>
                /\ event_by_source' = fresh.ix.by_source
                /\ event_by_target' = fresh.ix.by_target
                /\ event_by_type' = fresh.ix.by_type
                /\ ret' = fresh.ret]_vars

\* C17 witness: a failed login arrived right after a port scan of the same
\* source and time had raised an alert and the buffer had been cleared: it
\* is the only event held, and the same-source rule stayed silent.
C17_Witness ==
    /\ op = "add_event"
    /\ arg.event_type = FailedLogin
    /\ event_buffer = <<arg>>
    /\ ret = <<>>
    /\ \E k \in 1..Len(alerts) :
          /\ alerts[k].alert_type = "suspicious_service"
          /\ alerts[k].timestamp = now
          /\ alerts[k].source_ip = arg.source_ip

\* C18: when the store raises on an alert, add_event does not raise, the
\* alert is in the list it returns and with the alert manager, the alerts
\* after it are stored, and no alert is passed to the store twice: the
\* store is called once for each returned alert, in order.
C18_StoreFailureIsCaught ==
    (op = "add_event" /\ enabled /\ alerts_enabled) =>
        /\ exc = None
        /\ Len(db_calls) = Len(ret)
        /\ \A k \in 1..Len(ret) : db_calls[k].alert = ret[k]
        /\ Len(alerts) >= Len(ret)
        /\ \A k \in 1..Len(ret) : alerts[Len(alerts) - Len(ret) + k] = ret[k]

\* C18 witness: the store raised on the first of two alerts and stored the
\* second.
C18_Witness ==
    /\ op = "add_event"
    /\ alerts_enabled
    /\ Len(ret) = 2
    /\ Len(db_calls) = 2
    /\ ~db_calls[1].ok
    /\ db_calls[2].ok

\* An alert without its correlation id.
Sans(alert) == [k \in DOMAIN alert \ {"correlation_id"} |-> alert[k]]

\* C21: add_event is a function of the buffer, the indexes, the rules, the
\* clock and the event: a second engine in that state, whatever alerts its
\* manager holds, whatever ids it has drawn and whatever its store does,
\* returns a list of the same length whose alerts agree with the first
\* engine's in every field but correlation_id, and ends with the same buffer
\* and indexes.
C21_AddEventDeterministic ==
    [][(op' = "add_event" /\ enabled) =>
         \A drawn \in {0, MaxAlerts}, failing \in {{}, 1..MaxRules} :
             \A twin \in {AddEventStep([ix |-> Ix, alerts |-> <<>>,
                                        next_id |-> drawn], arg', failing)} :
                 /\ twin.raised <=> (exc' # None)
                 /\ Len(twin.ret) = Len(ret')
                 /\ \A k \in 1..Len(twin.ret) : Sans(twin.ret[k]) = Sans(ret'[k])
                 /\ event_buffer' = twin.ix.buffer
                 /\ event_by_source' = twin.ix.by_source
                 /\ event_by_target' = twin.ix.by_target
                 /\ event_by_type' = twin.ix.by_type]_vars

\* C21 witness: add_event returned two alerts with ids that are not the
\* first ones drawn, behind an alert its manager held, the store failing on
\* the second.
C21_Witness ==
    /\ op = "add_event"
    /\ alerts_enabled
    /\ Len(ret) = 2
    /\ ret[1].correlation_id > 1
    /\ Len(alerts) = 3
    /\ Len(db_calls) = 2
    /\ ~db_calls[2].ok

(***************************************************************************)
(* Properties of the rule list (checked under SpecAdmin).                  *)
(***************************************************************************)
\* The calls that read the rule list or do not touch it.
RuleListReaders ==
    {"add_event", "add_events", "clear_buffer", "get_statistics",
     "get_events_by_source", "get_events_by_target", "get_events_by_type"}

\* C22: add_event, add_events, clear_buffer, get_statistics and the three
\* queries leave the rule list as it was, the order of the rules and every
\* field of every rule; the rule list changes in add_rule and remove_rule
\* only.
C22_OnlyAddAndRemoveChangeRules ==
    [][/\ op' \in RuleListReaders => rules' = rules
       /\ rules' # rules => op' \in {"add_rule", "remove_rule"}]_vars

\* C22 witness: add_events returned the alerts of two rules, one of them a
\* rule that add_rule had appended, and both rules are in the list still.
C22_Witness ==
    /\ op = "add_events"
    /\ Len(rules) = 2
    /\ rules[2] = UrgentRule
    /\ \A i \in 1..2 : \E k \in 1..Len(ret) : ret[k].rule_name = rules[i].name

\* The places of the rule list that hold a rule of the name.
Named(rule_list, rule_name) ==
    {i \in 1..Len(rule_list) : Get(rule_list[i], "name", None) = rule_name}

\* C23: add_rule(r) appends r and leaves the rules before it as they were;
\* remove_rule(name) removes every rule of that name and no other, keeps the
\* rest in order, and returns True exactly when it removed a rule; for a
\* name that no rule has it returns False and changes nothing.
C23_AddAppendsRemoveFiltersByName ==
    [][/\ op' = "add_rule" =>
             /\ Len(rules') = Len(rules) + 1
             /\ rules'[Len(rules')] = arg'
             /\ SubSeq(rules', 1, Len(rules)) = rules
       /\ op' = "remove_rule" =>
             LET named == Named(rules, arg'.name)
             IN  /\ Named(rules', arg'.name) = {}
                 /\ Len(rules') = Len(rules) - Cardinality(named)
                 /\ \A i \in 1..Len(rules) \ named :
                       rules'[i - Cardinality({j \in named : j < i})] = rules[i]
                 /\ Len(ret') = 1
                 /\ ret'[1].removed <=> named # {}
                 /\ named = {} => (rules' = rules /\ ~ret'[1].removed)]_vars

\* C23 witness: remove_rule took the first and the third rule, which had one
\* name, and left the second.
C23_Witness ==
    /\ op = "remove_rule"
    /\ arg.name = "Suspicious Service Access"
    /\ ret[1].removed
    /\ rules = <<ScaledDefaultRules[1]>>

Severities == {"INFO", "LOW", "MEDIUM", "HIGH", "CRITICAL"}

\* C29: every alert add_event returns or forwards has a severity that is one
\* of INFO, LOW, MEDIUM, HIGH, CRITICAL, whatever rules were configured or
\* added with add_rule.
C29_SeverityIsOneOfFive ==
    /\ op \in {"add_event", "add_events"} =>
           \A k \in 1..Len(ret) : ret[k].severity \in Severities
    /\ \A k \in 1..Len(alerts) : alerts[k].severity \in Severities

(***************************************************************************)
(* Properties of the detector's tracking (checked under SpecDet).          *)
(***************************************************************************)
\* add_event does not track the event: it has no source_ip (or an empty
\* one), or it is neither a failed nor a successful login.
Ignored(event) ==
    \/ ~Truthy(Get(event, "source_ip", None))
    \/ (~match_failed_login(event) /\ ~match_successful_login(event))

\* C24: the detector's add_event on an event without a source_ip, or on one
\* that is neither a failed nor a successful login, returns no alert and
\* leaves the tracked failures of every key as they were.
C24_IgnoredEventsChangeNothing ==
    (op = "bf.add_event" /\ Ignored(arg)) =>
        /\ ret = <<>>
        /\ failed_attempts = pre

\* C24 witness: a failed login without a source_ip was ignored while a key
\* had two failures tracked.
C24_Witness ==
    /\ op = "bf.add_event"
    /\ "source_ip" \notin DOMAIN arg
    /\ match_failed_login(arg)
    /\ \E key \in DOMAIN failed_attempts : Len(failed_attempts[key]) = 2

\* The last call returned an alert of the type.
Returned(alert_type) == ret # <<>> /\ ret[1].alert_type = alert_type

\* C25: right after a failed login with timestamp t was processed for a key,
\* every timestamp stored for the key is in (t - time_window, t], in
\* whatever order the events arrive; a stored timestamp leaves the list only
\* when that pruning drops it or when a successful_brute_force alert clears
\* the key.
C25_StoredTimestampsInTrailingWindow ==
    /\ FailedLoginProcessed =>
          \A i \in 1..Len(failed_attempts[KeyOf(arg)]) :
              /\ failed_attempts[KeyOf(arg)][i] > arg.timestamp - time_window
              /\ failed_attempts[KeyOf(arg)][i] <= arg.timestamp
    /\ op = "bf.add_event" =>
          \A key \in DOMAIN pre :
              IF key \in DOMAIN failed_attempts
              THEN \A i \in 1..Len(pre[key]) :
                       Count(failed_attempts[key], pre[key][i]) < Count(pre[key], pre[key][i])
                           => /\ FailedLoginProcessed
                              /\ key = KeyOf(arg)
                              /\ pre[key][i] <= arg.timestamp - time_window
              ELSE key = KeyOf(arg) /\ Returned("successful_brute_force")

\* C26: a successful_brute_force alert leaves its key untracked, and from
\* then on no brute_force_detected alert is returned for the key before
\* failed_login_threshold failed logins have been processed for it: the
\* key's tracked failures count up from 1 again.
C26_NoAlertUntilThresholdFailuresAfterClear ==
    /\ (op = "bf.add_event" /\ Returned("successful_brute_force")) =>
          /\ KeyOf(arg) \notin DOMAIN failed_attempts
          /\ since_clear[KeyOf(arg)] = 0
    /\ (FailedLoginProcessed /\ Returned("brute_force_detected")
           /\ KeyOf(arg) \in DOMAIN since_clear) =>
          since_clear[KeyOf(arg)] >= threshold
    /\ \A key \in DOMAIN since_clear :
          since_clear[key] < threshold =>
              Len(Tracked(failed_attempts, key)) <= since_clear[key]

\* C26 witness: a key that had been cleared got a brute_force_detected alert
\* again, on its second failed login since.
C26_Witness ==
    /\ FailedLoginProcessed
    /\ Returned("brute_force_detected")
    /\ threshold = MaxThreshold
    /\ KeyOf(arg) \in DOMAIN since_clear
    /\ since_clear[KeyOf(arg)] = threshold

\* C27: with alert_on_success_after_failures unset a successful login
\* returns no alert and changes no key's tracked failures, however many
\* recent failures its key has; a failed login is handled as with the flag
\* set: its timestamp is appended, the key's list pruned, and the alert
\* returned when the count reaches the threshold.
C27_DisabledFlagSilencesSuccess ==
    /\ (SuccessfulLoginProcessed /\ ~alert_on_success) =>
          /\ ret = <<>>
          /\ failed_attempts = pre
    /\ FailedLoginProcessed =>
          LET key  == KeyOf(arg)
              kept == SelectSeq(Append(Tracked(pre, key), arg.timestamp),
                                LAMBDA t : t > arg.timestamp - time_window)
          IN  /\ failed_attempts = Put(pre, key, kept)
              /\ Returned("brute_force_detected") <=> Len(kept) >= threshold
              /\ ret = <<>> <=> Len(kept) < threshold

\* C27 witness: with the flag unset, a successful login of a key with two
\* recent failures.
C27_Witness ==
    /\ SuccessfulLoginProcessed
    /\ ~alert_on_success
    /\ CountNewer(Tracked(failed_attempts, KeyOf(arg)),
                  arg.timestamp - time_window) >= 2

\* C36: a successful login of a key with fewer than 2 tracked failures
\* inside the window returns no alert and leaves the tracked failures of
\* the key, and of every key, as they were: nothing is pruned, nothing
\* cleared.  The failed login of the key that follows counts on from them:
\* its count is one more than the failures of the key that are inside its
\* own window.
C36_SuccessBelowTwoFailuresKeepsTracking ==
    /\ [](SuccessfulLoginProcessed =>
            LET recent == CountNewer(Tracked(pre, KeyOf(arg)),
                                     arg.timestamp - time_window)
            IN  recent < 2 => /\ ret = <<>>
                              /\ failed_attempts = pre)
    /\ [][(/\ SuccessfulLoginProcessed
           /\ ret = <<>>
           /\ op' = "bf.add_event"
           /\ match_failed_login(arg')
           /\ KeyOf(arg') = KeyOf(arg))
          => /\ KeyOf(arg) \in DOMAIN failed_attempts'
             /\ Len(failed_attempts'[KeyOf(arg)]) =
                   1 + CountNewer(Tracked(failed_attempts, KeyOf(arg)),
                                  arg'.timestamp - time_window)]_vars

\* C36 witness: with alerts on success enabled, a successful login of a key
\* whose one tracked failure is older than the window: no alert, and the
\* failure is tracked still.
C36_Witness ==
    /\ SuccessfulLoginProcessed
    /\ alert_on_success
    /\ ret = <<>>
    /\ KeyOf(arg) \in DOMAIN failed_attempts
    /\ Len(failed_attempts[KeyOf(arg)]) = 1
    /\ failed_attempts[KeyOf(arg)][1] <= arg.timestamp - time_window

\* C37: a successful login counts as recent every tracked failure of its key
\* whose timestamp is above its own timestamp less time_window_seconds, the
\* failures stamped later than the success among them: with alerts on
\* success enabled it returns the successful_brute_force alert exactly when
\* that number is at least 2, and the alert's failed_attempts is that
\* number.
C37_RecentFailuresHaveLowerBoundOnly ==
    (SuccessfulLoginProcessed /\ alert_on_success) =>
        LET above == CountNewer(Tracked(pre, KeyOf(arg)),
                                arg.timestamp - time_window)
        IN  IF above >= 2
            THEN /\ Returned("successful_brute_force")
                 /\ ret[1].failed_attempts = above
            ELSE ret = <<>>

\* C37 witness: a successful login was alerted with two failures, both
\* stamped later than the success.
C37_Witness ==
    /\ SuccessfulLoginProcessed
    /\ Returned("successful_brute_force")
    /\ ret[1].failed_attempts = 2
    /\ Len(pre[KeyOf(arg)]) = 2
    /\ \A i \in 1..2 : pre[KeyOf(arg)][i] > arg.timestamp

\* C28: every alert the detector or the engine returns carries a
\* correlation identifier, and no two alerts carry the same one.
C28_EveryAlertCarriesUniqueId ==
    /\ op \in {"bf.add_event", "add_event", "add_events"} =>
          /\ \A k \in 1..Len(ret) : "correlation_id" \in DOMAIN ret[k]
          /\ \A j, k \in 1..Len(ret) :
                j # k => ret[j].correlation_id # ret[k].correlation_id
    /\ \A j, k \in 1..Len(alerts) :
          j # k => alerts[j].correlation_id # alerts[k].correlation_id

(***************************************************************************)
(* Properties of the fuzzy match (checked under SpecFuzzy).                *)
(***************************************************************************)
\* The event types of the source's buffered events inside the rule's window.
TypesSeen(rule, source_ip) ==
    {e.event_type : e \in Range(RecentWith(rule, "source_ip", source_ip))}

\* C30 as claimed: an observed port_scan satisfies a requirement for
\* port_scan_aggressive: a same-source rule fires when each of its required
\* types was observed from the source, port_scan standing in for
\* port_scan_aggressive.
C30_PortScanSatisfiesAggressive ==
    (op = "add_event" /\ enabled) =>
        \A i \in 1..Len(rules) :
            (/\ RuleFlag(rules[i], "same_source")
             /\ PassesTypeGate(rules[i], arg)
             /\ \A j \in 1..Len(rules[i].events) :
                   \E seen \in TypesSeen(rules[i], arg.source_ip) :
                       \/ seen = rules[i].events[j]
                       \/ (seen = PortScan /\ rules[i].events[j] = PortScanAggressive))
                => AlertsOf(rules[i]) # <<>>

\* The observed type satisfies the required one: it is that type, or it is
\* port_scan_aggressive where port_scan is required.
Satisfies(seen, required) ==
    \/ seen = required
    \/ (seen = PortScanAggressive /\ required = PortScan)

\* C30 as amended: the match runs the other way.  An observed
\* port_scan_aggressive satisfies a requirement for port_scan, an observed
\* port_scan does not satisfy one for port_scan_aggressive: a same-source
\* rule fires exactly when each required type is satisfied by a type
\* observed from the source.
C30_AggressiveSatisfiesPortScan ==
    (op = "add_event" /\ enabled) =>
        \A i \in 1..Len(rules) :
            (RuleFlag(rules[i], "same_source") /\ PassesTypeGate(rules[i], arg))
                => (AlertsOf(rules[i]) # <<>>
                      <=> \A j \in 1..Len(rules[i].events) :
                              \E seen \in TypesSeen(rules[i], arg.source_ip) :
                                  Satisfies(seen, rules[i].events[j]))

\* C30 witness: a failed login of a source that had sent a port_scan and no
\* port_scan_aggressive: the rule that requires port_scan fired, the rule
\* that requires port_scan_aggressive did not.
C30_Witness ==
    /\ op = "add_event"
    /\ arg.event_type = FailedLogin
    /\ TypesSeen(AggressiveRule, arg.source_ip) = {PortScan, FailedLogin}
    /\ AlertsOf(AggressiveRule) = <<>>
    /\ AlertsOf(rules[2]) # <<>>

\* An observed port_scan_aggressive stood in for the required port_scan.
C30_AggressiveWitness ==
    /\ op = "add_event"
    /\ arg.event_type = FailedLogin
    /\ TypesSeen(rules[2], arg.source_ip) = {PortScanAggressive, FailedLogin}
    /\ Len(ret) = 2

(***************************************************************************)
(* Properties of the lazy eviction (checked under SpecLazy).               *)
(***************************************************************************)
\* The calls that read the engine, and the passage of time.
BufferReaders ==
    {"tick", "get_statistics", "get_rules",
     "get_events_by_source", "get_events_by_target", "get_events_by_type"}

QueryNames == {"get_events_by_source", "get_events_by_target", "get_events_by_type"}

\* The event is older than the eviction keeps: the next add_event removes it.
Stale(event) == TsOf(event) <= now - MaxOf(time_windows)

\* The buffer and the indexes change inside add_event and clear_buffer only;
\* get_statistics counts every buffered event, the stale ones too; the
\* add_event that follows leaves no stale event.
LazyEviction ==
    /\ [][/\ op' \in BufferReaders => UNCHANGED idxVars
          /\ idxVars' # idxVars => op' \in {"add_event", "clear_buffer"}
          /\ op' = "add_event" =>
                \A i \in 1..Len(event_buffer') : ~Stale(event_buffer'[i])]_vars
    /\ [](op = "get_statistics" => ret[1].events_buffered = Len(event_buffer))

\* C31 as stated: the buffer and the indexes change inside add_event and
\* clear_buffer only, stale events stay buffered and counted until the next
\* add_event, and every query leaves the stale events out.
C31_QueriesExcludeStaleEvents ==
    /\ LazyEviction
    /\ [](op \in QueryNames => \A i \in 1..Len(ret) : ~Stale(ret[i]))

\* C31: the buffer and the indexes change inside add_event and clear_buffer
\* only; the passage of time, get_statistics, get_rules and the three
\* queries leave them unchanged, so stale events stay buffered and counted
\* by get_statistics until the next add_event.  A query whose time_window is
\* no longer than the widest of the engine's time_windows leaves the stale
\* events out; a query that looks back further returns them.
C31_EvictionIsLazy ==
    /\ LazyEviction
    /\ [](op \in QueryNames =>
            IF arg.time_window <= MaxOf(time_windows)
            THEN \A i \in 1..Len(ret) : ~Stale(ret[i])
            ELSE ret = SelectSeq(CASE op = "get_events_by_source" ->
                                          Tracked(event_by_source, arg.key)
                                   [] op = "get_events_by_target" ->
                                          Tracked(event_by_target, arg.key)
                                   [] OTHER -> Tracked(event_by_type, arg.key),
                                 LAMBDA e : TsOf(e) > now - arg.time_window))

\* C31 witness: a query over the widest of the engine's time_windows
\* returned nothing for a source whose only buffered event is stale.
C31_Witness ==
    /\ op = "get_events_by_source"
    /\ arg.time_window = MaxOf(time_windows)
    /\ ret = <<>>
    /\ Len(event_buffer) = 1
    /\ Stale(event_buffer[1])
    /\ Len(Tracked(event_by_source, arg.key)) = 1

\* C31 witness of the long look-back: a query returned a stale event.
C31_StaleWitness ==
    /\ op = "get_events_by_source"
    /\ ret # <<>>
    /\ Stale(ret[1])

(***************************************************************************)
(* Properties of the gate on the event's type (checked under SpecGate).    *)
(***************************************************************************)
\* The rules of the rule list that carry the name.
RulesNamed(rule_name) ==
    {rules[i] : i \in {j \in 1..Len(rules) : Get(rules[j], "name", None) = rule_name}}

\* One of the rule's required types is a substring of the event's type; an
\* event without a type has the empty type.
RequiredTypeInType(rule, event) ==
    /\ "events" \in DOMAIN rule
    /\ \E j \in 1..Len(rule.events) :
          IsSubstring(rule.events[j],
                      IF "event_type" \in DOMAIN event THEN event.event_type ELSE <<>>)

\* C32: add_event returns an alert of a rule only if one of the rule's
\* required types is a substring of the event's event_type, whatever the
\* rule's mode: a rule with an empty or a missing events list has no alert,
\* and an event without event_type gets none.
C32_RuleNeedsRequiredTypeInEventType ==
    op = "add_event" =>
        /\ \A k \in 1..Len(ret) :
              \A rule \in RulesNamed(ret[k].rule_name) :
                  /\ RequiredTypeInType(rule, arg)
                  /\ Get(rule, "events", <<>>) # <<>>
        /\ "event_type" \notin DOMAIN arg => ret = <<>>

\* C32 witness: an event without event_type, with a source, a target and a
\* telnet service, got no alert, while events of its source and to its
\* target that had raised alerts of the three modes are in the buffer.
C32_Witness ==
    /\ op = "add_event"
    /\ "event_type" \notin DOMAIN arg
    /\ ret = <<>>
    /\ Len(event_buffer) = 3
    /\ Get(event_buffer[1], "event_type", <<>>) = PortScanAggressive
    /\ Get(event_buffer[2], "event_type", <<>>) = FailedLogin
    /\ next_id = 3

(***************************************************************************)
(* Properties of the order of add_event's steps (checked under SpecOrder). *)
(***************************************************************************)
\* The eviction keeps the event.
KeptByEviction(event) == TsOf(event) > now - MaxOf(time_windows)

\* C33: add_event evaluates the rules on the buffer as the indexing and the
\* eviction left it.  An incoming event that the eviction keeps is the last
\* of the buffer, and it counts: a same-source rule finds its type among the
\* observed types and counts it in matched_events, a same-target rule counts
\* it toward its count and its source toward the distinct sources, when its
\* timestamp is inside the rule's window.  An incoming event that is older
\* than now - max_window is not in the buffer and counts in no query, and no
\* query counts an event that the eviction removed.
C33_RulesSeeBufferAfterIndexAndEviction ==
    op = "add_event" =>
        /\ \A i \in 1..Len(event_buffer) : KeptByEviction(event_buffer[i])
        /\ IF KeptByEviction(arg)
           THEN event_buffer # <<>> /\ event_buffer[Len(event_buffer)] = arg
           ELSE arg \notin Range(event_buffer)
        /\ \A i \in 1..Len(rules) :
              PassesTypeGate(rules[i], arg) =>
                  LET field  == IF RuleFlag(rules[i], "same_source")
                                THEN "source_ip" ELSE "target_ip"
                      recent == RecentWith(rules[i], field, arg[field])
                      met    == IF RuleFlag(rules[i], "same_source")
                                THEN AllRequiredSeen(rules[i], arg.source_ip)
                                ELSE /\ Len(recent) >= rules[i].count
                                     /\ Cardinality(UniqueSources(recent)) >= 2
                  IN  IF met
                      THEN /\ Len(AlertsOf(rules[i])) = 1
                           /\ AlertsOf(rules[i])[1].matched_events = Len(recent)
                      ELSE AlertsOf(rules[i]) = <<>>

\* C33 witness: the distributed rule, which asks for two events of two
\* sources, fired on the second failed login: the incoming event is one of
\* the two events it counted.
C33_Witness ==
    /\ op = "add_event"
    /\ Len(event_buffer) = 2
    /\ event_buffer[2] = arg
    /\ \E k \in 1..Len(ret) :
          /\ ret[k].rule_name = "Distributed Brute-Force"
          /\ ret[k].matched_events = 2
          /\ ret[k].unique_sources = 2

\* C33 witness of the late event: a failed login older than the eviction
\* keeps, inside the window of the same-source rule, arrived after a port
\* scan of its source; it is not in the buffer and the rule stayed silent.
C33_StaleWitness ==
    /\ op = "add_event"
    /\ arg.event_type = FailedLogin
    /\ ~KeptByEviction(arg)
    /\ arg.timestamp > now - (MaxWindow + 1)
    /\ ret = <<>>
    /\ \E i \in 1..Len(event_buffer) :
          /\ event_buffer[i].event_type = PortScan
          /\ event_buffer[i].source_ip = arg.source_ip

(***************************************************************************)
(* Properties of rules with several modes (checked under SpecFall).        *)
(***************************************************************************)
\* What a rule of several modes returns for the last event, by the buffer
\* as add_event left it: the clause that returned, or "none".
Outcome(rule) ==
    LET source_ip  == Get(arg, "source_ip", None)
        target_ip  == Get(arg, "target_ip", None)
        to_target  == RecentWith(rule, "target_ip", target_ip)
        by_service ==
            IF /\ Get(rule, "suspicious_services", <<>>) # <<>>
               /\ Get(arg, "service", "") \in Range(rule.suspicious_services)
            THEN "suspicious_services" ELSE "none"
        by_target  ==
            IF ~RuleFlag(rule, "same_target") THEN by_service
            ELSE IF ~Truthy(target_ip) THEN "none"
            ELSE IF /\ Len(to_target) >= rule.count
                    /\ Cardinality(UniqueSources(to_target)) >= 2
            THEN "same_target"
            ELSE by_service
    IN  IF ~PassesTypeGate(rule, arg) THEN "none"
        ELSE IF ~RuleFlag(rule, "same_source") THEN by_target
        ELSE IF ~Truthy(source_ip) THEN "none"
        ELSE IF AllRequiredSeen(rule, source_ip) THEN "same_source"
        ELSE by_target

\* C34: a rule that sets several of same_source, same_target and
\* suspicious_services returns at most one alert for an event, that of the
\* first of the three clauses, in this order, whose condition is met.  A
\* same_source clause that is not met (a required type is missing for the
\* source) hands over to same_target and suspicious_services, and so does a
\* same_target clause that is not met; an event without source_ip ends a
\* rule with same_source, and one without target_ip ends a rule whose
\* same_target clause is reached, with no alert.
C34_FirstClauseThatIsMetReturns ==
    op = "add_event" =>
        \A i \in 1..Len(rules) :
            LET found == AlertsOf(rules[i])
            IN  CASE Outcome(rules[i]) = "none" -> found = <<>>
                  [] Outcome(rules[i]) = "same_source" ->
                        /\ Len(found) = 1
                        /\ found[1].alert_type = "rule_match"
                        /\ "target_ip" \notin DOMAIN found[1]
                        /\ found[1].source_ip = arg.source_ip
                  [] Outcome(rules[i]) = "same_target" ->
                        /\ Len(found) = 1
                        /\ found[1].alert_type = "rule_match"
                        /\ "source_ip" \notin DOMAIN found[1]
                        /\ found[1].target_ip = arg.target_ip
                  [] OTHER ->
                        /\ Len(found) = 1
                        /\ found[1].alert_type = "suspicious_service"

\* C34 witness: the rule of the three modes returned its same-target alert
\* for a failed login whose source had sent no port scan.
C34_Witness ==
    /\ op = "add_event"
    /\ rules = <<AllModesRule>>
    /\ arg.event_type = FailedLogin
    /\ Len(ret) = 1
    /\ ret[1].alert_type = "rule_match"
    /\ "target_ip" \in DOMAIN ret[1]
    /\ "source_ip" \notin DOMAIN ret[1]

\* C34 witness of the ended rule: a port scan that found telnet, with a
\* source that has sent no failed login and without a target, got no alert
\* of the rule of the three modes.
C34_EndedWitness ==
    /\ op = "add_event"
    /\ rules = <<AllModesRule>>
    /\ arg.event_type = PortScan
    /\ "target_ip" \notin DOMAIN arg
    /\ "source_ip" \in DOMAIN arg
    /\ ret = <<>>

(***************************************************************************)
(* Properties of the detector's keys (checked under SpecKeys).             *)
(***************************************************************************)
\* C35: the detector's add_event on a login of (source_ip, username) leaves
\* the tracked timestamps of every other key as they were, the keys of the
\* same source with another user and of the same user from another source
\* among them, and it adds and removes no other key; a failed login without
\* username is tracked under (source_ip, 'unknown').
C35_OnlyTheEventsKeyChanges ==
    op = "bf.add_event" =>
        LET own == <<Get(arg, "source_ip", None),
                     IF "username" \in DOMAIN arg THEN arg.username ELSE "unknown">>
        IN  /\ \A key \in (DOMAIN pre \cup DOMAIN failed_attempts) \ {own} :
                  /\ key \in DOMAIN pre
                  /\ key \in DOMAIN failed_attempts
                  /\ failed_attempts[key] = pre[key]
            /\ (match_failed_login(arg) /\ "username" \notin DOMAIN arg) =>
                  /\ <<arg.source_ip, "unknown">> \in DOMAIN failed_attempts
                  /\ LET tracked == failed_attempts[<<arg.source_ip, "unknown">>]
                     IN  /\ tracked # <<>>
                         /\ tracked[Len(tracked)] = arg.timestamp
                         /\ Len(tracked) <= Len(Tracked(pre, <<arg.source_ip, "unknown">>)) + 1

\* C35 witness: a failed login without username was tracked under
\* (source_ip, 'unknown') while the same source has a failure tracked for
\* admin and another source has one for admin.
C35_Witness ==
    /\ op = "bf.add_event"
    /\ match_failed_login(arg)
    /\ "username" \notin DOMAIN arg
    /\ DOMAIN failed_attempts =
          {<<"10.0.0.5", "unknown">>, <<"10.0.0.5", "admin">>, <<"10.0.0.6", "admin">>}
    /\ \A key \in DOMAIN failed_attempts : Len(failed_attempts[key]) = 1

\* C35 witness of the clear: a successful login cleared the key of admin at
\* one source and left the failure of root at that source tracked.
C35_ClearWitness ==
    /\ op = "bf.add_event"
    /\ Returned("successful_brute_force")
    /\ Get(arg, "username", "unknown") = "admin"
    /\ DOMAIN pre = {<<"10.0.0.5", "admin">>, <<"10.0.0.5", "root">>}
    /\ DOMAIN failed_attempts = {<<"10.0.0.5", "root">>}

(***************************************************************************)
(* Properties of clear_buffer's frame (checked under SpecClear).           *)
(***************************************************************************)
\* C38: clear_buffer leaves the rule list, the alerts the alert manager
\* holds and the detector's tracked failures as they were; over add_event,
\* add_events, clear_buffer, add_rule and remove_rule the alert manager's
\* list only grows at its end, and get_statistics reports its length as
\* total_alerts, so the total never decreases.
C38_ClearBufferKeepsRulesAlertsAndTracking ==
    /\ [][op' = "clear_buffer" =>
            /\ rules' = rules
            /\ alerts' = alerts
            /\ failed_attempts' = failed_attempts]_vars
    /\ [][/\ Len(alerts') >= Len(alerts)
          /\ SubSeq(alerts', 1, Len(alerts)) = alerts]_vars
    /\ [](op = "get_statistics" => ret[1].total_alerts = Len(alerts))

\* C38 witness: clear_buffer on an engine whose alert manager holds two
\* alerts, with a rule that add_rule appended, while the detector tracks
\* two failures.
C38_Witness ==
    /\ op = "clear_buffer"
    /\ event_buffer = <<>>
    /\ Len(alerts) = 2
    /\ Len(rules) = 2
    /\ rules[2] = SecondServiceRule
    /\ \E key \in DOMAIN failed_attempts : Len(failed_attempts[key]) = 2

\* C38 witness of the total: get_statistics reported two alerts and no
\* buffered event.
C38_TotalWitness ==
    /\ op = "get_statistics"
    /\ ret[1].events_buffered = 0
    /\ ret[1].total_alerts = 2

(***************************************************************************)
(* Properties of the disabled engine (checked under SpecSwitch).           *)
(***************************************************************************)
\* C39: with correlation.enabled unset, add_event returns [] and changes
\* nothing: the buffer and the three indexes stay as they were (the event
\* is not added, nothing is evicted), the alert manager gets no alert and
\* its store no call, no correlation id is drawn, the rule list is as it
\* was; the engine never holds an event or an alert.
C39_DisabledAddEventChangesNothing ==
    /\ [][(op' = "add_event" /\ ~enabled) =>
            /\ ret' = <<>>
            /\ exc' = None
            /\ db_calls' = <<>>
            /\ UNCHANGED <<idxVars, alerts, next_id, rules, cfgVars>>]_vars
    /\ [](~enabled => /\ Ix = EmptyIx
                      /\ alerts = <<>>
                      /\ next_id = 0)

\* C39 witness: the disabled engine was given a port scan that found
\* telnet, which the built-in suspicious-service rule alerts on: it
\* returned nothing and holds nothing.
C39_Witness ==
    /\ op = "add_event"
    /\ ~enabled
    /\ arg.event_type = PortScan
    /\ arg.service = "telnet"
    /\ ret = <<>>
    /\ event_buffer = <<>>
    /\ alerts = <<>>
    /\ now = MaxTs

(***************************************************************************)
(* Properties of analyze_events (checked under SpecAnalyze).               *)
(***************************************************************************)
\* C40: analyze_events(events) does what add_event does on each event in
\* turn: the second event is handled on the tracking as the first left it,
\* the list returned holds the alerts of the calls in the order of the
\* events, at most one for an event, and the tracking is left as the last
\* call leaves it.  An event that is a failed and a successful login at once
\* is handled as a failed login: its timestamp is tracked and it gets no
\* successful_brute_force alert.
C40_AnalyzeEventsIsAddEventInOrder ==
    /\ [][op' = "bf.analyze_events" =>
            /\ Len(ret') <= Len(arg')
            /\ CASE Len(arg') = 0 ->
                        /\ ret' = <<>>
                        /\ failed_attempts' = failed_attempts
                 [] Len(arg') = 1 ->
                        LET one == DetectorStep(failed_attempts, arg'[1])
                        IN  /\ ret' = one.ret
                            /\ failed_attempts' = one.fa
                 [] OTHER ->
                        LET one == DetectorStep(failed_attempts, arg'[1])
                            two == DetectorStep(one.fa, arg'[2])
                        IN  /\ ret' = one.ret \o two.ret
                            /\ failed_attempts' = two.fa]_vars
    /\ []((/\ op = "bf.add_event"
           /\ match_failed_login(arg)
           /\ match_successful_login(arg)) =>
              /\ KeyOf(arg) \in DOMAIN failed_attempts
              /\ failed_attempts[KeyOf(arg)][Len(failed_attempts[KeyOf(arg)])]
                     = arg.timestamp
              /\ Len(failed_attempts[KeyOf(arg)])
                     = 1 + CountNewer(Tracked(pre, KeyOf(arg)),
                                      arg.timestamp - time_window)
              /\ ~Returned("successful_brute_force"))

\* C40 witness: analyze_events on a list of two, an event that is both a
\* failed and a successful login and then a successful login, returned the
\* brute_force_detected alert of the first and the successful_brute_force
\* alert of the second, and left the key cleared.
C40_Witness ==
    /\ op = "bf.analyze_events"
    /\ Len(arg) = 2
    /\ match_failed_login(arg[1]) /\ match_successful_login(arg[1])
    /\ ~match_failed_login(arg[2])
    /\ Len(ret) = 2
    /\ ret[1].alert_type = "brute_force_detected"
    /\ ret[2].alert_type = "successful_brute_force"
    /\ pre # Empty
    /\ failed_attempts = Empty

=============================================================================
